---- MODULE Spec2Model ----
(***************************************************************************)
(* The scale-test scripts: Field / Metric (benchmarklib/metrics/base.py),  *)
(* MetricsCollector with its Thread helper (metrics/collector.py),         *)
(* Experiment, WorkloadMetrics and safe_kubeconfig (experiment.py), the    *)
(* juju client (clients/juju.py), Microk8sCluster.run_in_unit(s) and       *)
(* fetch_kubeconfig (cluster.py), JujuClusterSetup (setup_cluster.py) and  *)
(* APIServerLatency (scale_test/metrics.py).                               *)
(*                                                                         *)
(* Nine specifications share the variables:                                *)
(*   SpecMetric      a caller using Metric objects of one name directly    *)
(*                   (sample, dump, clear) over every ordered field list   *)
(*                   up to MaxFields;                                      *)
(*   SpecDump        the same caller replacing its Metric by new objects   *)
(*                   of the same name that dump into the same file;        *)
(*   Spec            a MetricsCollector used as a context manager, with    *)
(*                   its foreground thread, its poll thread and the        *)
(*                   per-metric sampling threads of _collect_in_parallel;  *)
(*   SpecStop        Spec with its threads scheduled fairly;               *)
(*   SpecExperiment  Experiment.run over its workloads, each inside a      *)
(*                   namespace and a WorkloadMetrics collector scope;      *)
(*   SpecJuju        one call of juju run / run_in_unit / run_in_units     *)
(*                   over its arguments and the subprocess's answer;       *)
(*   SpecSetup       form_cluster and wait_for_nodes_to_join over the      *)
(*                   deployed units and the nodes that become ready;       *)
(*   SpecKube        fetch_kubeconfig scopes over the config file and the  *)
(*                   KUBECONFIG variable;                                  *)
(*   SpecLatency     APIServerLatency polling apiservers that serve        *)
(*                   requests, with checkpoint and percentile calls.       *)
(***************************************************************************)
EXTENDS Integers, Sequences, FiniteSets, TLC

\* ------------------------------------------------------------------ bounds
\* longest field list of a Metric
MaxFields == 3
\* longest parameter list of a ParametrizedField
MaxParams == 2
\* units deployed before form_cluster
MaxNodes == 3
\* longest time one readiness check takes, in seconds
MaxCheckTime == 1
\* times one fetch_kubeconfig object is used as a scope
MaxEntries == 2
\* requests the apiservers observe
MaxRequests == 2
\* sample() calls made on one Metric by a direct caller
MaxCalls == 2
\* metrics handed to a MetricsCollector
MaxMetrics == 2
\* poll ticks started within one collector scope
MaxTicks == 2
\* collector scopes entered one after another
MaxScopes == 2
\* workloads registered with an Experiment; each one is a collector scope, so
\* not above MaxScopes
MaxWorkloads == 2
\* dump() calls made on one Metric by a direct caller
MaxDumps == 2
\* Metric objects a direct caller constructs under one name
MaxInstances == 2
\* longest list of units handed to a juju call
MaxUnits == 2
\* most bytes a juju subprocess leaves on stdout, and on stderr
MaxOutput == 2

VARIABLES
    \* ---- Metric objects (base.py), indexed by position in `fields`
    fields,        \* Metric.fields, one ordered field list per metric
    samples,       \* Metric.samples, one list of rows per metric
    calls,         \* number of sample() calls started on each metric
    lastSample,    \* outcome of the last finished sample(): "none","ok","raised"
    \* ---- file system under store_at
    dirExists,     \* the directory store_at exists
    files,         \* per metric: the lines of metric-{name}.csv; Absent if no file
    \* ---- MetricsCollector (collector.py)
    store_at,      \* "none" (store_at is None) or "path"
    started,       \* MetricsCollector._started
    thread,        \* MetricsCollector.thread: 0 is None, else the id of the poll thread
    stop_event,    \* threading.Event flag of the current poll thread
    pc,            \* foreground position
    bodyRaised,    \* the with-body raised (e.g. KeyboardInterrupt)
    exitResult,    \* how the last __exit__ ended: "none", "returned", "raised"
    exitExc,       \* the metric whose exception __exit__ raised, 0 if none
    pollpc,        \* poll thread position
    pollIdx,       \* loop index inside _collect_in_parallel
    pollQueue,     \* Thread.queue of the poll thread: 0 empty, else failing metric
    sampler,       \* per metric: state of the sampling thread of the running tick
    ticks,         \* poll ticks started in the current scope
    scopes,        \* scopes entered so far
    \* ---- history: what happened in the current scope; guards read it only
    \* to bound the number of calls
    hist,
    \* ---- a direct caller of Metric (SpecMetric)
    instances,     \* Metric objects constructed so far under the one name
    \* ---- Experiment (experiment.py) and the cluster it drives
    epc,           \* foreground position inside Experiment.run
    workloads,     \* len(Experiment.workloads)
    workload,      \* index of the workload being run, 0 before the first
    namespace,     \* the experiment's namespace exists in the cluster
    nsCalls,       \* the create_namespace / delete_namespace calls made, in order
    pending,       \* what bootstrap()/start() raised into Experiment.run: "none",
                   \* "exception", "interrupt" (KeyboardInterrupt)
    teardowns,     \* the calls of Experiment.teardown: how each one ended
    runResult,     \* how Experiment.run ended: "none", "returned", "raised"
    config,        \* ~/.kube/config: "absent", "user" (the one found), "cluster"
    backup,        \* safe_kubeconfig.backup: "none" (None) or "user"
    \* ---- juju client (clients/juju.py) and Microk8sCluster.run_in_unit(s)
    req,           \* the call under way and its arguments
    proc,          \* the CompletedProcess the juju subprocess will answer with
    invocations,   \* argument lists handed to _juju, in order
    result,        \* what the call returned or raised
    log,           \* records emitted through logging.error
    \* ---- JujuClusterSetup (setup_cluster.py)
    self_units,    \* JujuClusterSetup.units, the deployed units in order
    control_plane, \* form_cluster's argument: the control-plane count asked for
    cluster,       \* the ClusterInfo form_cluster builds and returns
    spc,           \* position inside form_cluster / wait_for_nodes_to_join
    joins,         \* the join_nodes_to_cluster calls made, in order
    max_wait,      \* wait_for_nodes_to_join's budget, in seconds
    clock,         \* time.time() - start inside wait_for_nodes_to_join
    ready,         \* names of the nodes kubectl reports Ready
    joined,        \* the last answer of all_nodes_joined: "none", "all", "some",
                   \* "raised"
    warnings,      \* records emitted through logging.warning
    \* ---- fetch_kubeconfig (cluster.py) and the files and environment it uses
    config_file,   \* content of fetch_kubeconfig.config_file: "absent", "stale"
                   \* (left by an earlier run), "cluster" (fetched from the cluster)
    parent_exists, \* config_file.parent exists
    KUBECONFIG,    \* os.environ["KUBECONFIG"]: Unset, or a path
    cleanup,       \* fetch_kubeconfig.cleanup
    config_arg,    \* fetch_kubeconfig._config_file as constructed: None or a path
    kpc,           \* position of the caller around the scope
    body_exc,      \* the body of the scope raised
    entries,       \* times the scope was entered
    \* ---- APIServerLatency (scale_test/metrics.py) and the apiservers it polls
    server,        \* the histogram series the control-plane apiservers expose
    checkpoint_buckets,   \* APIServerLatency._checkpoint_buckets
    checkpoint_requests,  \* APIServerLatency._checkpoint_requests
    last_total_requests,  \* APIServerLatency._last_total_requests
    lat            \* the last call of get_latency_percentiles: what it was given,
                   \* what it polled and derived, what it returned or raised

vars == <<fields, samples, calls, lastSample, dirExists, files, store_at, started,
          thread, stop_event, pc, bodyRaised, exitResult, exitExc, pollpc, pollIdx,
          pollQueue, sampler, ticks, scopes, hist, instances, epc, workloads,
          workload, namespace, nsCalls, pending, teardowns, runResult, config,
          backup, req, proc, invocations, result, log, self_units, control_plane,
          cluster, spc, joins, max_wait, clock, ready, joined, warnings, config_file,
          parent_exists, KUBECONFIG, cleanup, config_arg, kpc, body_exc, entries,
          server, checkpoint_buckets, checkpoint_requests, last_total_requests, lat>>

metricVars == <<fields, samples, calls, lastSample, dirExists, files>>
collectorVars == <<store_at, started, thread, stop_event, pc, bodyRaised, exitResult,
                   exitExc, pollpc, pollIdx, pollQueue, sampler, ticks, scopes, hist>>
experimentVars == <<epc, workloads, workload, namespace, nsCalls, pending, teardowns,
                    runResult, config, backup>>
jujuVars == <<req, proc, invocations, result, log>>
setupVars == <<self_units, control_plane, cluster, spc, joins, max_wait, clock, ready,
               joined, warnings>>
\* the state of the command-line tools around the experiment
kubeVars == <<config_file, parent_exists, KUBECONFIG, cleanup, config_arg, kpc, body_exc,
              entries>>
latencyVars == <<server, checkpoint_buckets, checkpoint_requests, last_total_requests,
                 lat>>
toolVars == <<setupVars, kubeVars, latencyVars>>
\* what neither a Metric's own methods nor the MetricsCollector touch
outerVars == <<instances, experimentVars, jujuVars, toolVars>>
\* what the command-line tools leave alone
programVars == <<metricVars, collectorVars, instances, experimentVars, jujuVars>>

\* ------------------------------------------------------------------ values
Absent == << <<"<absent>">> >>

Digits == <<"0", "1", "2", "3", "4", "5", "6", "7", "8", "9">>

\* str(value) as csv.writer applies it to every cell
RECURSIVE Str(_)
Str(n) == IF n < 10 THEN Digits[n + 1] ELSE Str(n \div 10) \o Digits[(n % 10) + 1]

\* ------------------------------------------------------------------ Field
ConstantField(name, value) ==
    [kind |-> "constant", name |-> name, value |-> value, param_name |-> "", params |-> <<>>]

VariableField(name) ==
    [kind |-> "variable", name |-> name, value |-> 0, param_name |-> "", params |-> <<>>]

ParametrizedField(name, param_name, params) ==
    [kind |-> "parametrized", name |-> name, value |-> 0, param_name |-> param_name,
     params |-> params]

\* The producers. A call of sample() is the n-th on its metric; a producer
\* observes n: a variable field's callable returns n, a parametrized field's
\* callable returns param + n. The code never branches on a produced value.
VariableCallable(n) == n
ParametrizedCallable(param, n) == param + n

\* ParametrizedField.collect: one (param, value) pair per parameter, in order
ParametrizedCollect(field, n) ==
    [j \in 1..Len(field.params) |->
        <<field.params[j], ParametrizedCallable(field.params[j], n)>>]

\* whether collecting the field calls a producer at all, so that it can raise
CallsProducer(field) ==
    \/ field.kind = "variable"
    \/ field.kind = "parametrized" /\ Len(field.params) > 0

\* ------------------------------------------------------------------ Metric
\* itertools.product(a, b) as a list: a varies slowest
Product(a, b) ==
    [k \in 1..(Len(a) * Len(b)) |->
        <<a[((k - 1) \div Len(b)) + 1], b[((k - 1) % Len(b)) + 1]>>]

\* one iteration of the loop of collect_fields
CollectStep(acc, field, n) ==
    IF field.kind = "parametrized"
    THEN LET param_values == ParametrizedCollect(field, n)
             product == Product(acc, param_values)
         IN  [k \in 1..Len(product) |-> product[k][1] \o product[k][2]]
    ELSE LET value == IF field.kind = "constant" THEN field.value
                      ELSE VariableCallable(n)
         IN  IF acc = <<>>
             THEN <<<<value>>>>
             ELSE [k \in 1..Len(acc) |-> Append(acc[k], value)]

RECURSIVE CollectFrom(_, _, _, _)
CollectFrom(fs, i, acc, n) ==
    IF i > Len(fs) THEN acc
    ELSE CollectFrom(fs, i + 1, CollectStep(acc, fs[i], n), n)

\* Metric.collect_fields when no producer raises
collect_fields(fs, n) == CollectFrom(fs, 1, <<>>, n)

\* Metric.field_names
RECURSIVE field_names(_)
field_names(fs) ==
    IF fs = <<>> THEN <<>>
    ELSE LET field == Head(fs) IN
         (IF field.kind = "parametrized"
          THEN <<field.param_name, field.name>>
          ELSE <<field.name>>) \o field_names(Tail(fs))

\* csv.writer.writerow: every cell through str()
CsvRow(row) == [c \in 1..Len(row) |-> Str(row[c])]
CsvRows(rows) == [r \in 1..Len(rows) |-> CsvRow(rows[r])]

\* mutant: a dump that writes the header whether or not the file exists
DumpFileWithHeader(file, fs, rows) ==
    (IF file = Absent THEN <<>> ELSE file) \o <<field_names(fs)>> \o CsvRows(rows)

\* Metric.dump on the file of that metric: header only if the file is new,
\* then the rows, appended
DumpFile(file, fs, rows) ==
    (IF file = Absent THEN <<field_names(fs)>> ELSE file) \o CsvRows(rows)

\* ------------------------------------------------------------------ inputs
FieldName(i) == "f" \o Str(i)
ParamName(i) == "p" \o Str(i)
Params(k) == [j \in 1..k |-> 10 * j]

\* the fields that can stand at position i of a field list
FieldsAt(i) ==
    {ConstantField(FieldName(i), 10), VariableField(FieldName(i))}
    \cup {ParametrizedField(FieldName(i), ParamName(i), Params(k)) : k \in 0..MaxParams}

\* every ordered field list of exactly n fields
RECURSIVE FieldListsOfLen(_)
FieldListsOfLen(n) ==
    IF n = 0 THEN {<<>>}
    ELSE {Append(fs, f) : fs \in FieldListsOfLen(n - 1), f \in FieldsAt(n)}

FieldLists == UNION {FieldListsOfLen(n) : n \in 0..MaxFields}

\* MyTestMetric of the unit tests: a constant and a variable field
MyTestMetric == <<ConstantField("cluster_size", 10), VariableField("memory_usage")>>

\* the producer positions of a field list at which a sample() call can raise;
\* 0 stands for a call in which no producer raises
RaisePoints(fs) == {0} \cup {i \in 1..Len(fs) : CallsProducer(fs[i])}

\* mutant: a sample() that assigns the collected rows instead of extending
sample_assigns(old, fs, n, failAt) ==
    IF failAt = 0 THEN collect_fields(fs, n) ELSE old

\* mutant: a sample() that keeps what was collected before the producer raised
sample_keeps_partial(old, fs, n, failAt) ==
    IF failAt = 0 THEN old \o collect_fields(fs, n)
    ELSE old \o collect_fields(SubSeq(fs, 1, failAt - 1), n)

\* Metric.sample, the n-th call, on the rows `old`: collect_fields, then extend.
\* A producer raising at field failAt leaves collect_fields before the extend.
sample(old, fs, n, failAt) ==
    IF failAt = 0 THEN old \o collect_fields(fs, n) ELSE old

\* mutant: a clear() that keeps the rows
clear_keeps(rows) == rows

\* Metric.clear: self.samples = []
clear(rows) == <<>>

\* no Experiment is running
ExperimentIdle ==
    /\ epc = "off"
    /\ workloads = 0
    /\ workload = 0
    /\ namespace = FALSE
    /\ nsCalls = <<>>
    /\ pending = "none"
    /\ teardowns = <<>>
    /\ runResult = "none"
    /\ config = "absent"
    /\ backup = "none"

\* no juju call is made
JujuIdle ==
    /\ req = [fn |-> "none"]
    /\ proc = [returncode |-> 0, stdout |-> <<>>, stderr |-> <<>>]
    /\ invocations = <<>>
    /\ result = [kind |-> "none"]
    /\ log = <<>>

\* no cluster is being set up
NoCluster == [master |-> <<>>, control_plane |-> <<>>, workers |-> <<>>]

SetupIdle ==
    /\ self_units = <<>>
    /\ control_plane = 0
    /\ cluster = NoCluster
    /\ spc = "off"
    /\ joins = <<>>
    /\ max_wait = 0
    /\ clock = 0
    /\ ready = {}
    /\ joined = "none"
    /\ warnings = <<>>

\* os.environ without the key
Unset == "<unset>"

\* no fetch_kubeconfig object exists
KubeIdle ==
    /\ config_file = "absent"
    /\ parent_exists = FALSE
    /\ KUBECONFIG = Unset
    /\ cleanup = FALSE
    /\ config_arg = <<>>
    /\ kpc = "off"
    /\ body_exc = FALSE
    /\ entries = 0

\* get_latency_percentiles has not been called
NoCall == [kind |-> "none", arg |-> "none", polled |-> <<>>, checkpoint |-> <<>>,
           latencies |-> <<>>, samples |-> <<>>, value |-> <<>>]

\* no APIServerLatency exists
LatencyIdle ==
    /\ server = <<>>
    /\ checkpoint_buckets = <<>>
    /\ checkpoint_requests = 0
    /\ last_total_requests = 0
    /\ lat = NoCall

\* no command-line tool is running
ToolsIdle == SetupIdle /\ KubeIdle /\ LatencyIdle

\* ------------------------------------------------------------------ SpecMetric
\* A caller that owns one Metric and calls sample(), dump(path), clear() itself.
NoHist == [completed |-> <<>>, raised |-> {}, dumping |-> FALSE, dumps |-> 0,
           clears |-> 0, stops |-> 0]

CollectorIdle ==
    /\ store_at = "path"
    /\ started = FALSE
    /\ thread = 0
    /\ stop_event = FALSE
    /\ pc = "idle"
    /\ bodyRaised = FALSE
    /\ exitResult = "none"
    /\ exitExc = 0
    /\ pollpc = "none"
    /\ pollIdx = 0
    /\ pollQueue = 0
    /\ sampler = <<>>
    /\ ticks = 0
    /\ scopes = 0
    /\ hist = NoHist

InitMetric ==
    /\ ToolsIdle
    /\ \E fs \in FieldLists : fields = <<fs>>
    /\ samples = << <<>> >>
    /\ calls = <<0>>
    /\ lastSample = "none"
    /\ dirExists = TRUE
    /\ files = <<Absent>>
    /\ CollectorIdle
    /\ instances = 1
    /\ ExperimentIdle
    /\ JujuIdle

\* m.sample()
MSample ==
    /\ calls[1] < MaxCalls
    /\ \E failAt \in RaisePoints(fields[1]) :
        /\ samples' = [samples EXCEPT ![1] = sample(@, fields[1], calls[1] + 1, failAt)]
        /\ lastSample' = IF failAt = 0 THEN "ok" ELSE "raised"
    /\ calls' = [calls EXCEPT ![1] = @ + 1]
    /\ UNCHANGED <<fields, dirExists, files>>
    /\ UNCHANGED collectorVars
    /\ UNCHANGED outerVars

\* m.dump(path)
MDump ==
    /\ hist.dumps < MaxDumps
    /\ files' = [files EXCEPT ![1] = DumpFile(@, fields[1], samples[1])]
    /\ hist' = [hist EXCEPT !.dumps = @ + 1]
    /\ UNCHANGED <<fields, samples, calls, lastSample, dirExists>>
    /\ UNCHANGED <<store_at, started, thread, stop_event, pc, bodyRaised, exitResult,
                   exitExc, pollpc, pollIdx, pollQueue, sampler, ticks, scopes>>
    /\ UNCHANGED outerVars

\* m.clear()
MClear ==
    /\ samples[1] # <<>>
    /\ samples' = [samples EXCEPT ![1] = clear(@)]
    /\ UNCHANGED <<fields, calls, lastSample, dirExists, files>>
    /\ UNCHANGED collectorVars
    /\ UNCHANGED outerVars

NextMetric == MSample \/ MDump \/ MClear

SpecMetric == InitMetric /\ [][NextMetric]_vars

\* ------------------------------------------------------------------ SpecDump
\* A caller that samples, clears and dumps Metric objects of one name, one
\* after another, into one directory: test_dump_appends at large.
DumpFieldLists == {<<>>, MyTestMetric} \cup FieldListsOfLen(1)

InitDump ==
    /\ ToolsIdle
    /\ \E fs \in DumpFieldLists : fields = <<fs>>
    /\ samples = << <<>> >>
    /\ calls = <<0>>
    /\ lastSample = "none"
    /\ dirExists = TRUE
    /\ files = <<Absent>>
    /\ CollectorIdle
    /\ instances = 1
    /\ ExperimentIdle
    /\ JujuIdle

\* other_instance = SomeMetric(name=<the same name>): the caller goes on with a
\* new Metric object of the same class, or of MyTestMetric's, whose file is
\* the same metric-{name}.csv. As in test_dump_appends, the caller turns to
\* another instance after a dump.
MNew ==
    /\ instances < MaxInstances
    /\ hist.dumps >= instances
    /\ instances' = instances + 1
    /\ \E fs \in {fields[1], MyTestMetric} : fields' = <<fs>>
    /\ samples' = << <<>> >>
    /\ calls' = <<0>>
    /\ UNCHANGED <<lastSample, dirExists, files>>
    /\ UNCHANGED collectorVars
    /\ UNCHANGED <<experimentVars, jujuVars>>
    /\ UNCHANGED toolVars

NextDump == MSample \/ MDump \/ MClear \/ MNew

SpecDump == InitDump /\ [][NextDump]_vars

\* ------------------------------------------------------------------ MetricsCollector
NMetrics == Len(fields)

\* mutant: __enter__ without the check of the metric list
EnterStartsAlways(metrics) == TRUE

\* __enter__: `if self.metrics:`
EnterStarts(metrics) == metrics # <<>>

\* mutant: an exit that gives up when the body raised
exit_stops_unless_raised(_started, body_raised) == _started /\ ~body_raised

\* __exit__(*args): `if not self._started: return`; the exception the body
\* raised, handed over in args, is not looked at
exit_stops(_started, body_raised) == _started

\* mutant: a stop that does not wait for the poll thread
ThreadNotJoined(p) == TRUE

\* threading.Thread.join on a thread at position p: returns once it has ended
ThreadJoined(p) == p = "dead"

\* mutant: a stop that drops what the poll thread queued
never_raise_child_exception(queue) == FALSE

\* Thread.maybe_raise_child_exception on the thread's queue: raises what the
\* thread's run() caught and queued
maybe_raise_child_exception(queue) == queue # 0

\* mutant: a tick that does not wait for its sampling threads
SamplerNotJoined(s) == TRUE

\* thread.join() of a sampling thread in _collect_in_parallel
SamplerJoined(s) == s \in {"done", "failed"}

\* mutant: a poll loop that never sees the stop event
stop_event_ignored(event) == FALSE

\* collect_samples: `self.stop_event.wait(0)`, true when the event is set
stop_event_wait(event) == event

Init ==
    /\ ToolsIdle
    /\ \E n \in 0..MaxMetrics :
        /\ fields = [m \in 1..n |-> MyTestMetric]
        /\ samples = [m \in 1..n |-> <<>>]
        /\ calls = [m \in 1..n |-> 0]
        /\ files = [m \in 1..n |-> Absent]
        /\ sampler = [m \in 1..n |-> "none"]
        /\ hist = [NoHist EXCEPT !.completed = [m \in 1..n |-> 0]]
    /\ lastSample = "none"
    /\ dirExists \in BOOLEAN
    /\ store_at \in {"none", "path"}
    /\ started = FALSE
    /\ thread = 0
    /\ stop_event = FALSE
    /\ pc = "idle"
    /\ bodyRaised = FALSE
    /\ exitResult = "none"
    /\ exitExc = 0
    /\ pollpc = "none"
    /\ pollIdx = 0
    /\ pollQueue = 0
    /\ ticks = 0
    /\ scopes = 0
    /\ instances = 1
    /\ ExperimentIdle
    /\ JujuIdle

\* `with collector:` -- __enter__, with start_thread when there are metrics.
\* The callers (Experiment.run_workload, the unit tests) enter a scope again
\* only after an exit that did not raise a sampling exception.
Enter ==
    /\ pc = "idle"
    /\ scopes < MaxScopes
    /\ exitResult # "raised"
    /\ scopes' = scopes + 1
    /\ IF EnterStarts(fields)
       THEN /\ stop_event' = FALSE
            /\ thread' = scopes + 1
            /\ pollpc' = "check"
            /\ pollQueue' = 0
            /\ started' = TRUE
       ELSE UNCHANGED <<stop_event, thread, pollpc, pollQueue, started>>
    /\ pc' = "body"
    /\ bodyRaised' = FALSE
    /\ exitResult' = "none"
    /\ exitExc' = 0
    /\ ticks' = 0
    /\ pollIdx' = 0
    /\ hist' = [NoHist EXCEPT !.completed = [m \in 1..NMetrics |-> 0]]
    /\ UNCHANGED <<metricVars, store_at, sampler>>
    /\ UNCHANGED outerVars

\* the body of the with statement ends normally
BodyReturns ==
    /\ pc = "body"
    /\ pc' = "exit"
    /\ UNCHANGED <<metricVars, store_at, started, thread, stop_event, bodyRaised,
                   exitResult, exitExc, pollpc, pollIdx, pollQueue, sampler, ticks,
                   scopes, hist>>
    /\ UNCHANGED outerVars

\* the body of the with statement raises (e.g. KeyboardInterrupt)
BodyRaises ==
    /\ pc = "body"
    /\ bodyRaised' = TRUE
    /\ pc' = "exit"
    /\ UNCHANGED <<metricVars, store_at, started, thread, stop_event,
                   exitResult, exitExc, pollpc, pollIdx, pollQueue, sampler, ticks,
                   scopes, hist>>
    /\ UNCHANGED outerVars

\* __exit__ up to stop_thread's stop_event.set()
Exit ==
    /\ pc = "exit"
    /\ IF ~exit_stops(started, bodyRaised)
       THEN /\ pc' = "idle"
            /\ exitResult' = "returned"
            /\ UNCHANGED <<stop_event, hist>>
       ELSE /\ stop_event' = TRUE
            /\ pc' = "join"
            /\ hist' = [hist EXCEPT !.stops = @ + 1]
            /\ UNCHANGED exitResult
    /\ UNCHANGED <<metricVars, store_at, started, thread, bodyRaised, exitExc,
                   pollpc, pollIdx, pollQueue, sampler, ticks, scopes>>
    /\ UNCHANGED outerVars

\* the rest of stop_thread: join, maybe_raise_child_exception, _started = False
StopThread ==
    /\ pc = "join"
    /\ ThreadJoined(pollpc)
    /\ IF maybe_raise_child_exception(pollQueue)
       THEN /\ exitResult' = "raised"
            /\ exitExc' = pollQueue
            /\ pc' = "idle"
            /\ UNCHANGED <<started, hist>>
       ELSE /\ started' = FALSE
            /\ pc' = "dump"
            /\ hist' = [hist EXCEPT !.dumping = TRUE]
            /\ UNCHANGED <<exitResult, exitExc>>
    /\ UNCHANGED <<metricVars, store_at, thread, stop_event, bodyRaised,
                   pollpc, pollIdx, pollQueue, sampler, ticks, scopes>>
    /\ UNCHANGED outerVars

\* MetricsCollector.dump
Dump ==
    /\ pc = "dump"
    /\ IF store_at = "none"
       THEN UNCHANGED <<dirExists, files>>
       ELSE /\ dirExists' = TRUE
            /\ files' = [m \in 1..NMetrics |-> DumpFile(files[m], fields[m], samples[m])]
    /\ pc' = "clear"
    /\ hist' = [hist EXCEPT !.dumps = @ + 1]
    /\ UNCHANGED <<fields, samples, calls, lastSample, store_at, started, thread,
                   stop_event, bodyRaised, exitResult, exitExc, pollpc, pollIdx,
                   pollQueue, sampler, ticks, scopes>>
    /\ UNCHANGED outerVars

\* MetricsCollector.clear_metrics, and __exit__ returns None
Clear ==
    /\ pc = "clear"
    /\ samples' = [m \in 1..NMetrics |-> clear(samples[m])]
    /\ pc' = "idle"
    /\ exitResult' = "returned"
    /\ hist' = [hist EXCEPT !.clears = @ + 1]
    /\ UNCHANGED <<fields, calls, lastSample, dirExists, files, store_at, started,
                   thread, stop_event, bodyRaised, exitExc, pollpc, pollIdx,
                   pollQueue, sampler, ticks, scopes>>
    /\ UNCHANGED outerVars

\* collect_samples: the check of the stop event at the head of the loop, and
\* `threads = []` of a new tick
PollCheck ==
    /\ pollpc = "check"
    /\ IF stop_event_wait(stop_event)
       THEN /\ pollpc' = "dead"
            /\ UNCHANGED <<ticks, sampler, pollIdx>>
       ELSE /\ ticks < MaxTicks
            /\ ticks' = ticks + 1
            /\ sampler' = [m \in 1..NMetrics |-> "none"]
            /\ IF NMetrics = 0
               THEN pollpc' = "sleep" /\ UNCHANGED pollIdx
               ELSE pollpc' = "spawn" /\ pollIdx' = 1
    /\ UNCHANGED <<metricVars, store_at, started, thread, stop_event, pc, bodyRaised,
                   exitResult, exitExc, pollQueue, scopes, hist>>
    /\ UNCHANGED outerVars

\* _collect_in_parallel, first loop: Thread(target=m.sample).start()
PollSpawn ==
    /\ pollpc = "spawn"
    /\ sampler' = [sampler EXCEPT ![pollIdx] = "running"]
    /\ calls' = [calls EXCEPT ![pollIdx] = @ + 1]
    /\ IF pollIdx = NMetrics
       THEN pollpc' = "join" /\ pollIdx' = 1
       ELSE pollIdx' = pollIdx + 1 /\ UNCHANGED pollpc
    /\ UNCHANGED <<fields, samples, lastSample, dirExists, files, store_at, started,
                   thread, stop_event, pc, bodyRaised, exitResult, exitExc, pollQueue,
                   ticks, scopes, hist>>
    /\ UNCHANGED outerVars

\* a sampling thread runs m.sample(); Thread.run queues what it raises
SamplerRun(m) ==
    /\ sampler[m] = "running"
    /\ \E failAt \in RaisePoints(fields[m]) :
        /\ samples' = [samples EXCEPT ![m] = sample(@, fields[m], calls[m], failAt)]
        /\ sampler' = [sampler EXCEPT ![m] = IF failAt = 0 THEN "done" ELSE "failed"]
        /\ lastSample' = IF failAt = 0 THEN "ok" ELSE "raised"
        /\ hist' = [hist EXCEPT !.completed[m] = @ + 1,
                                !.raised = IF failAt = 0 THEN @ ELSE @ \cup {m}]
    /\ UNCHANGED <<fields, calls, dirExists, files, store_at, started, thread,
                   stop_event, pc, bodyRaised, exitResult, exitExc, pollpc, pollIdx,
                   pollQueue, ticks, scopes>>
    /\ UNCHANGED outerVars

\* _collect_in_parallel, second loop: join the thread, raise its exception;
\* the poll thread's own run() then queues it and the thread ends
PollJoin ==
    /\ pollpc = "join"
    /\ SamplerJoined(sampler[pollIdx])
    /\ IF sampler[pollIdx] = "failed"
       THEN /\ pollQueue' = pollIdx
            /\ pollpc' = "dead"
            /\ UNCHANGED pollIdx
       ELSE /\ IF pollIdx = NMetrics
               THEN pollpc' = "sleep" /\ UNCHANGED pollIdx
               ELSE pollIdx' = pollIdx + 1 /\ UNCHANGED pollpc
            /\ UNCHANGED pollQueue
    /\ UNCHANGED <<metricVars, store_at, started, thread, stop_event, pc, bodyRaised,
                   exitResult, exitExc, sampler, ticks, scopes, hist>>
    /\ UNCHANGED outerVars

\* the end of a tick: time.sleep(sleep_time), or `continue` after the warning
\* when sampling took longer than the poll period
PollSleep ==
    /\ pollpc = "sleep"
    /\ pollpc' = "check"
    /\ UNCHANGED <<metricVars, store_at, started, thread, stop_event, pc, bodyRaised,
                   exitResult, exitExc, pollIdx, pollQueue, sampler, ticks, scopes,
                   hist>>
    /\ UNCHANGED outerVars

Next ==
    \/ Enter
    \/ BodyReturns
    \/ BodyRaises
    \/ Exit
    \/ StopThread
    \/ Dump
    \/ Clear
    \/ PollCheck
    \/ PollSpawn
    \/ \E m \in 1..NMetrics : SamplerRun(m)
    \/ PollJoin
    \/ PollSleep

Spec == Init /\ [][Next]_vars

\* The same program with its threads scheduled: the thread that is leaving the
\* scope, the poll thread and every sampling thread keep being run; how long
\* the body of the with statement takes is left open.
SpecStop ==
    /\ Spec
    /\ WF_vars(Exit)
    /\ WF_vars(StopThread)
    /\ WF_vars(Dump)
    /\ WF_vars(Clear)
    /\ WF_vars(PollCheck)
    /\ WF_vars(PollSpawn)
    /\ \A m \in 1..MaxMetrics : WF_vars(m \in 1..NMetrics /\ SamplerRun(m))
    /\ WF_vars(PollJoin)
    /\ WF_vars(PollSleep)

\* ------------------------------------------------------------------ juju client
\* an Optional[...] argument: None, or the value given
None == <<>>
Some(v) == <<v>>

\* the truth value Python gives an optional str (`if arg`): None and "" are false
TruthyStr(o) == o # None /\ o[1] # ""
\* the same for an optional list: None and [] are false
TruthyList(o) == o # None /\ o[1] # <<>>

\* len([arg for arg in [unit, units, app] if arg])
GivenCount(unit, units, app) ==
    (IF TruthyStr(unit) THEN 1 ELSE 0) + (IF TruthyList(units) THEN 1 ELSE 0)
    + (IF TruthyStr(app) THEN 1 ELSE 0)

\* mutant: a check that only asks for a target
need_at_least_one(n) == n >= 1

\* run: `if len([...]) != 1: raise ValueError`
need_exactly_one(n) == n = 1

\* sep.join(names)
RECURSIVE Join(_, _)
Join(sep, names) ==
    IF names = <<>> THEN ""
    ELSE IF Len(names) = 1 THEN names[1]
    ELSE names[1] \o sep \o Join(sep, Tail(names))

\* run, past the check: the argument list handed to _juju
juju_command(command, unit, units, app, timeout, model, format) ==
    LET target == IF TruthyStr(unit) THEN <<unit[1]>> ELSE units[1]
    IN  <<"run">>
        \o (IF TruthyStr(model) THEN <<"-m", model[1]>> ELSE <<>>)
        \o (IF TruthyStr(timeout) THEN <<"--timeout", timeout[1]>> ELSE <<>>)
        \o (IF TruthyStr(format) THEN <<"--format", format[1]>> ELSE <<>>)
        \o (IF TruthyStr(app)
            THEN <<"-a", app[1], "--">> \o command
            ELSE <<"-u", Join(",", target), "--">> \o command)

\* ------------------------------------------------------------------ Microk8sCluster.run_in_unit(s)
\* UnitParam = Union[Unit, str]: `unit.name` of a Unit, the str itself otherwise
Unit(name) == [kind |-> "Unit", name |-> name]
UnitStr(name) == [kind |-> "str", name |-> name]
unit_name(unit) == unit.name

\* CompletedProcess.check_returncode raises CalledProcessError
check_returncode(p) == p.returncode # 0

\* bytes.decode(), UTF-8 strict, on bytes below 0xE0: a str is the sequence of
\* its code points. An ASCII byte is its own code point, a lead byte
\* 0xC2..0xDF takes one continuation byte 0x80..0xBF, anything else is refused
\* with UnicodeDecodeError.
RECURSIVE Utf8Valid(_)
Utf8Valid(b) ==
    IF b = <<>> THEN TRUE
    ELSE IF b[1] < 128 THEN Utf8Valid(Tail(b))
    ELSE IF b[1] \in 194..223 /\ Len(b) >= 2 /\ b[2] \in 128..191
         THEN Utf8Valid(Tail(Tail(b)))
    ELSE FALSE

RECURSIVE decode(_)
decode(b) ==
    IF b = <<>> THEN <<>>
    ELSE IF b[1] < 128 THEN <<b[1]>> \o decode(Tail(b))
    ELSE <<(b[1] - 192) * 64 + (b[2] - 128)>> \o decode(Tail(Tail(b)))

\* str.isspace of one character, for code points below 0x800
IsSpace(c) == c \in (9..13) \cup (28..32) \cup {133, 160}

RECURSIVE lstrip(_)
lstrip(t) == IF t # <<>> /\ IsSpace(t[1]) THEN lstrip(Tail(t)) ELSE t

RECURSIVE rstrip(_)
rstrip(t) ==
    IF t # <<>> /\ IsSpace(t[Len(t)]) THEN rstrip(SubSeq(t, 1, Len(t) - 1)) ELSE t

\* str.strip()
strip(t) == rstrip(lstrip(t))

\* what a call ended with
Result(kind, command, stdout, stderr) ==
    [kind |-> kind, command |-> command, stdout |-> stdout, stderr |-> stderr]
Response == Result("response", "", <<>>, <<>>)
Raised(kind) == Result(kind, "", <<>>, <<>>)

\* the try/except of run_in_unit and run_in_units around check_returncode, on
\* the response resp of the juju call: the outcome and the records logged
after_run(resp, command, check) ==
    IF check /\ check_returncode(resp)
    THEN IF Utf8Valid(resp.stderr) /\ Utf8Valid(resp.stdout)
         THEN LET stderr == strip(decode(resp.stderr))
                  stdout == decode(resp.stdout)
              IN  [result |-> Result("ClusterCommandError", command, stdout, stderr),
                   log |-> <<[level |-> "ERROR", command |-> command, stderr |-> stderr]>>]
         ELSE [result |-> Raised("UnicodeDecodeError"), log |-> <<>>]
    ELSE [result |-> Response, log |-> <<>>]

\* ------------------------------------------------------------------ SpecJuju
\* One call of clients.juju.run, of Microk8sCluster.run_in_unit or of
\* Microk8sCluster.run_in_units, over the arguments below; the juju
\* subprocess answers with any exit status and output.
UnitNames(k) == [i \in 1..k |-> "u" \o Str(i)]

RunRequests ==
    [fn : {"run"},
     command : {<<"some command">>, <<"ls", "-l">>},
     unit : {None, Some(""), Some("foo")},
     units : {None} \cup {Some(UnitNames(k)) : k \in 0..MaxUnits},
     app : {None, Some("myapp")},
     timeout : {None, Some("10s")},
     model : {None, Some("foobar")},
     format : {None, Some("json")}]

UnitRequests ==
    [fn : {"run_in_unit"},
     command : {"blah"},
     unit : {Unit("foo"), UnitStr("foo"), UnitStr("")},
     format : {None, Some("json")},
     timeout : {None, Some("10s")},
     check : BOOLEAN,
     model : {"test"}]

UnitsRequests ==
    [fn : {"run_in_units"},
     command : {"blah"},
     units : {[i \in 1..k |-> Unit(UnitNames(k)[i])] : k \in 0..MaxUnits}
             \cup {[i \in 1..k |-> UnitStr(UnitNames(k)[i])] : k \in 1..MaxUnits},
     format : {None, Some("json")},
     model : {"test"}]

\* bytes of an output: "\n", "e", and the two bytes of the UTF-8 form of U+00E9
Bytes == {10, 101, 195, 169}

RECURSIVE BytesOfLen(_)
BytesOfLen(n) ==
    IF n = 0 THEN {<<>>}
    ELSE {Append(b, x) : b \in BytesOfLen(n - 1), x \in Bytes}

Outputs == UNION {BytesOfLen(n) : n \in 0..MaxOutput}

\* subprocess.CompletedProcess of a run with capture_output=True
Procs == [returncode : {0, 1}, stdout : Outputs, stderr : Outputs]

\* no Metric exists
MetricsIdle ==
    /\ fields = <<>>
    /\ samples = <<>>
    /\ calls = <<>>
    /\ lastSample = "none"
    /\ dirExists = TRUE
    /\ files = <<>>
    /\ instances = 0

InitJuju ==
    /\ ToolsIdle
    /\ \/ req \in RunRequests /\ proc = [returncode |-> 0, stdout |-> <<>>, stderr |-> <<>>]
       \/ req \in UnitRequests \cup UnitsRequests /\ proc \in Procs
    /\ invocations = <<>>
    /\ result = [kind |-> "none"]
    /\ log = <<>>
    /\ MetricsIdle
    /\ CollectorIdle
    /\ ExperimentIdle

\* clients.juju.run(*command, unit=, units=, app=, timeout=, model=, format=)
JujuRun ==
    /\ req.fn = "run"
    /\ result.kind = "none"
    /\ IF ~need_exactly_one(GivenCount(req.unit, req.units, req.app))
       THEN /\ result' = Raised("ValueError")
            /\ UNCHANGED invocations
       ELSE /\ invocations' = Append(invocations,
                    juju_command(req.command, req.unit, req.units, req.app,
                                 req.timeout, req.model, req.format))
            /\ result' = Response
    /\ UNCHANGED <<req, proc, log>>
    /\ UNCHANGED <<metricVars, collectorVars, instances, experimentVars>>
    /\ UNCHANGED toolVars

\* Microk8sCluster.run_in_unit(unit, command, format, timeout, check), through
\* JujuSession.run_in_unit and run
RunInUnit ==
    /\ req.fn = "run_in_unit"
    /\ result.kind = "none"
    /\ LET unit == Some(unit_name(req.unit))
       IN  IF ~need_exactly_one(GivenCount(unit, None, None))
           THEN /\ result' = Raised("ValueError")
                /\ UNCHANGED <<invocations, log>>
           ELSE LET after == after_run(proc, req.command, req.check)
                IN  /\ invocations' = Append(invocations,
                            juju_command(<<req.command>>, unit, None, None,
                                         req.timeout, Some(req.model), req.format))
                    /\ result' = after.result
                    /\ log' = log \o after.log
    /\ UNCHANGED <<req, proc>>
    /\ UNCHANGED <<metricVars, collectorVars, instances, experimentVars>>
    /\ UNCHANGED toolVars

\* Microk8sCluster.run_in_units(units, command, format), through
\* JujuSession.run_in_units and run
RunInUnits ==
    /\ req.fn = "run_in_units"
    /\ result.kind = "none"
    /\ IF req.units = <<>>
       THEN /\ result' = Raised("IndexError")
            /\ UNCHANGED <<invocations, log>>
       ELSE LET units == Some([i \in 1..Len(req.units) |-> unit_name(req.units[i])])
                after == after_run(proc, req.command, TRUE)
            IN  IF ~need_exactly_one(GivenCount(None, units, None))
                THEN /\ result' = Raised("ValueError")
                     /\ UNCHANGED <<invocations, log>>
                ELSE /\ invocations' = Append(invocations,
                             juju_command(<<req.command>>, None, units, None,
                                          None, Some(req.model), req.format))
                     /\ result' = after.result
                     /\ log' = log \o after.log
    /\ UNCHANGED <<req, proc>>
    /\ UNCHANGED <<metricVars, collectorVars, instances, experimentVars>>
    /\ UNCHANGED toolVars

NextJuju == JujuRun \/ RunInUnit \/ RunInUnits

SpecJuju == InitJuju /\ [][NextJuju]_vars

\* ------------------------------------------------------------------ SpecExperiment
\* Experiment.run() on an experiment with 0..MaxWorkloads workloads and
\* 0..MaxMetrics metrics registered for all of them. The foreground walks
\* through run, start and run_workload; inside the with statement of
\* run_workload the MetricsCollector of the workload runs with its threads.
\* A cluster or kubectl call ends "ok", in an "exception" (ClusterCommandError,
\* CalledProcessError) or in an "interrupt" (KeyboardInterrupt).
Outcomes == {"ok", "exception", "interrupt"}

\* mutant: a clause `except BaseException:`
except_BaseException(exc) == exc # "none"

\* run: `except KeyboardInterrupt:` -- what the clause catches
except_KeyboardInterrupt(exc) == exc = "interrupt"

\* mutant: a loop over the workloads from the last to the first
WorkloadAtReversed(i, n) == n + 1 - i

\* start: `for workload in self.workloads` -- the workload of the i-th pass
\* over n registered ones, by registration number
WorkloadAt(i, n) == i

\* WorkloadMetrics.workload_id: str(workload.yaml), of the w-th workload
workload_id(w) == w

InitExperiment ==
    /\ ToolsIdle
    /\ \E n \in 0..MaxMetrics :
        /\ fields = [m \in 1..n |-> MyTestMetric]
        /\ samples = [m \in 1..n |-> <<>>]
        /\ calls = [m \in 1..n |-> 0]
        /\ files = [m \in 1..n |-> Absent]
        /\ sampler = [m \in 1..n |-> "none"]
        /\ hist = [NoHist EXCEPT !.completed = [m \in 1..n |-> 0]]
    /\ lastSample = "none"
    /\ dirExists \in BOOLEAN
    /\ store_at = "path"
    /\ started = FALSE
    /\ thread = 0
    /\ stop_event = FALSE
    /\ pc = "idle"
    /\ bodyRaised = FALSE
    /\ exitResult = "none"
    /\ exitExc = 0
    /\ pollpc = "none"
    /\ pollIdx = 0
    /\ pollQueue = 0
    /\ ticks = 0
    /\ scopes = 0
    /\ instances = 1
    /\ epc = "new"
    /\ workloads \in 0..MaxWorkloads
    /\ workload = 0
    /\ namespace = FALSE
    /\ nsCalls = <<>>
    /\ pending = "none"
    /\ teardowns = <<>>
    /\ runResult = "none"
    /\ config \in {"absent", "user"}
    /\ backup = "none"
    /\ JujuIdle

\* run: `with safe_kubeconfig(self.cluster):` -- __enter__ moves an existing
\* config to a temporary file, then writes the one fetched from the cluster;
\* fetch_kubeconfig raising leaves run before the try statement
RunEnter ==
    /\ epc = "new"
    /\ backup' = IF config = "absent" THEN "none" ELSE "user"
    /\ \E fetched \in BOOLEAN :
        IF fetched
        THEN /\ config' = "cluster"
             /\ epc' = "bootstrap"
             /\ UNCHANGED runResult
        ELSE /\ config' = "absent"
             /\ epc' = "aborted"
             /\ runResult' = "raised"
    /\ UNCHANGED <<workloads, workload, namespace, nsCalls, pending, teardowns>>
    /\ UNCHANGED <<metricVars, collectorVars, instances, jujuVars>>
    /\ UNCHANGED toolVars

\* run: self.bootstrap(), then the head of the loop of start()
Bootstrap ==
    /\ epc = "bootstrap"
    /\ \E o \in Outcomes :
        IF o = "ok"
        THEN /\ IF workloads = 0
                THEN epc' = "teardown" /\ UNCHANGED workload
                ELSE epc' = "create" /\ workload' = 1
             /\ UNCHANGED pending
        ELSE /\ pending' = o
             /\ epc' = "teardown"
             /\ UNCHANGED workload
    /\ UNCHANGED <<workloads, namespace, nsCalls, teardowns, runResult, config, backup>>
    /\ UNCHANGED <<metricVars, collectorVars, instances, jujuVars>>
    /\ UNCHANGED toolVars

\* short_lived_namespace up to the yield: cluster.create_namespace(namespace);
\* kubectl create fails on a namespace that exists
CreateNamespace ==
    /\ epc = "create"
    /\ nsCalls' = Append(nsCalls, <<"create_namespace", WorkloadAt(workload, workloads)>>)
    /\ \E o \in Outcomes :
        /\ o = "ok" => ~namespace
        /\ IF o = "ok"
           THEN /\ namespace' = TRUE
                /\ epc' = "init"
                /\ UNCHANGED pending
           ELSE /\ pending' = o
                /\ epc' = "teardown"
                /\ namespace' \in (IF o = "interrupt" THEN {namespace, TRUE} ELSE {namespace})
    /\ UNCHANGED <<workloads, workload, teardowns, runResult, config, backup>>
    /\ UNCHANGED <<metricVars, collectorVars, instances, jujuVars>>
    /\ UNCHANGED toolVars

\* WorkloadMetrics.__init__: the "workload" field added to every metric, then
\* MetricsCollector.__init__ of a new collector
WorkloadMetricsInit ==
    /\ epc = "init"
    /\ fields' = [m \in 1..NMetrics |->
                    Append(fields[m],
                           ConstantField("workload",
                                         workload_id(WorkloadAt(workload, workloads))))]
    /\ started' = FALSE
    /\ thread' = 0
    /\ stop_event' = FALSE
    /\ bodyRaised' = FALSE
    /\ exitResult' = "none"
    /\ exitExc' = 0
    /\ pollpc' = "none"
    /\ pollQueue' = 0
    /\ epc' = "with"
    /\ UNCHANGED <<samples, calls, lastSample, dirExists, files, store_at, pc, pollIdx,
                   sampler, ticks, scopes, hist, instances>>
    /\ UNCHANGED <<workloads, workload, namespace, nsCalls, pending, teardowns, runResult,
                   config, backup>>
    /\ UNCHANGED jujuVars
    /\ UNCHANGED toolVars

\* run_workload: `with WorkloadMetrics(...):` -- __enter__
WithEnter == epc = "with" /\ Enter

\* run_workload: workload.apply(namespace=ns); kubectl apply may fail
Apply ==
    /\ epc = "with"
    /\ pc = "body"
    /\ \E o \in Outcomes :
        IF o = "ok"
        THEN /\ epc' = "wait"
             /\ UNCHANGED <<pc, bodyRaised, pending>>
        ELSE /\ epc' = "exit"
             /\ pc' = "exit"
             /\ bodyRaised' = TRUE
             /\ pending' = o
    /\ UNCHANGED <<workloads, workload, namespace, nsCalls, teardowns, runResult, config,
                   backup>>
    /\ UNCHANGED <<metricVars, store_at, started, thread, stop_event, exitResult, exitExc,
                   pollpc, pollIdx, pollQueue, sampler, ticks, scopes, hist>>
    /\ UNCHANGED <<instances, jujuVars>>
    /\ UNCHANGED toolVars

\* run_workload: workload.wait(), which only sleeps
Wait ==
    /\ epc = "wait"
    /\ pc = "body"
    /\ \E o \in {"ok", "interrupt"} :
        /\ bodyRaised' = (o # "ok")
        /\ pending' = IF o = "ok" THEN pending ELSE o
    /\ epc' = "exit"
    /\ pc' = "exit"
    /\ UNCHANGED <<workloads, workload, namespace, nsCalls, teardowns, runResult, config,
                   backup>>
    /\ UNCHANGED <<metricVars, store_at, started, thread, stop_event, exitResult, exitExc,
                   pollpc, pollIdx, pollQueue, sampler, ticks, scopes, hist>>
    /\ UNCHANGED <<instances, jujuVars>>
    /\ UNCHANGED toolVars

\* the collector's __exit__ is over: it returned, or raised a sampling exception
WithLeft == epc = "exit" /\ pc = "idle" /\ exitResult # "none"

\* short_lived_namespace after the yield, reached when the with statement
\* ended normally: cluster.delete_namespace(namespace); then the next pass of
\* the loop of start()
DeleteNamespace ==
    /\ WithLeft
    /\ exitResult = "returned"
    /\ pending = "none"
    /\ nsCalls' = Append(nsCalls, <<"delete_namespace", WorkloadAt(workload, workloads)>>)
    /\ \E o \in Outcomes :
        IF o = "ok"
        THEN /\ namespace' = FALSE
             /\ IF workload < workloads
                THEN epc' = "create" /\ workload' = workload + 1
                ELSE epc' = "teardown" /\ UNCHANGED workload
             /\ UNCHANGED pending
        ELSE /\ pending' = o
             /\ epc' = "teardown"
             /\ namespace' \in (IF o = "interrupt" THEN {namespace, FALSE} ELSE {namespace})
             /\ UNCHANGED workload
    /\ UNCHANGED <<workloads, teardowns, runResult, config, backup>>
    /\ UNCHANGED <<metricVars, collectorVars, instances, jujuVars>>
    /\ UNCHANGED toolVars

\* an exception leaves the with statement: the generator of
\* short_lived_namespace gets it at its yield and has no handler, so it leaves
\* run_workload and start()
Unwind ==
    /\ WithLeft
    /\ exitResult = "raised" \/ pending # "none"
    /\ pending' = IF exitResult = "raised" THEN "exception" ELSE pending
    /\ epc' = "teardown"
    /\ UNCHANGED <<workloads, workload, namespace, nsCalls, teardowns, runResult, config,
                   backup>>
    /\ UNCHANGED <<metricVars, collectorVars, instances, jujuVars>>
    /\ UNCHANGED toolVars

\* run: `finally: self.teardown()`; cluster.disable may fail
Teardown ==
    /\ epc = "teardown"
    /\ \E o \in Outcomes : teardowns' = Append(teardowns, o)
    /\ epc' = "kubeexit"
    /\ UNCHANGED <<workloads, workload, namespace, nsCalls, pending, runResult, config,
                   backup>>
    /\ UNCHANGED <<metricVars, collectorVars, instances, jujuVars>>
    /\ UNCHANGED toolVars

\* safe_kubeconfig.__exit__, which puts a backup back and returns None, and
\* the end of run: what teardown raised, else what the except clause did not
\* catch, is raised to the caller
RunExit ==
    /\ epc = "kubeexit"
    /\ config' = IF backup # "none" THEN "user" ELSE config
    /\ runResult' = IF teardowns[Len(teardowns)] # "ok" THEN "raised"
                     ELSE IF pending = "none" \/ except_KeyboardInterrupt(pending)
                          THEN "returned"
                     ELSE "raised"
    /\ epc' = "done"
    /\ UNCHANGED <<workloads, workload, namespace, nsCalls, pending, teardowns, backup>>
    /\ UNCHANGED <<metricVars, collectorVars, instances, jujuVars>>
    /\ UNCHANGED toolVars

NextExperiment ==
    \/ RunEnter
    \/ Bootstrap
    \/ CreateNamespace
    \/ WorkloadMetricsInit
    \/ WithEnter
    \/ Apply
    \/ Wait
    \/ Exit
    \/ StopThread
    \/ Dump
    \/ Clear
    \/ DeleteNamespace
    \/ Unwind
    \/ Teardown
    \/ RunExit
    \/ PollCheck
    \/ PollSpawn
    \/ \E m \in 1..NMetrics : SamplerRun(m)
    \/ PollJoin
    \/ PollSleep

SpecExperiment == InitExperiment /\ [][NextExperiment]_vars

\* ------------------------------------------------------------------ JujuClusterSetup
\* wait_for_nodes_to_join: `check_period = 30`
check_period == 30
\* form_cluster: `self.wait_for_nodes_to_join(cluster, max_wait=10 * 60)`
form_cluster_max_wait == 10 * 60

\* Python's index of a slice bound k on a list of length n: a negative bound
\* counts from the end, a bound beyond either end is clipped
ClampIndex(k, n) ==
    IF k < 0 THEN (IF k + n < 0 THEN 0 ELSE k + n) ELSE (IF k > n THEN n ELSE k)

\* list[:k]
SliceTo(s, k) == SubSeq(s, 1, ClampIndex(k, Len(s)))

\* list[k:]
SliceFrom(s, k) == SubSeq(s, ClampIndex(k, Len(s)) + 1, Len(s))

\* mutant: the master counted among the units still to join
remaining_with_master(c) == c

\* form_cluster: `control_plane -= 1  # master is running control plane already`
remaining_control_plane(c) == c - 1

\* ClusterInfo(app, model, master, control_plane, workers)
ClusterInfo(master, cp, workers) ==
    [master |-> <<master>>, control_plane |-> cp, workers |-> workers]

\* ClusterInfo.nodes
nodes(c) == c.control_plane \o c.workers

NodeNames(us) == {unit_name(us[i]) : i \in 1..Len(us)}

\* all_nodes_joined: every node of the cluster shows up as Ready; nodes the
\* cluster does not know are ignored
all_nodes_joined(c, rdy) == NodeNames(nodes(c)) \subseteq rdy

\* mutant: a budget that is over as soon as it is reached
timed_out_at(elapsed, budget) == elapsed >= budget

\* wait_for_nodes_to_join: `(time.time() - start) > max_wait`
timed_out(elapsed, budget) == elapsed > budget

\* join_nodes_to_cluster(nodes, join_url, as_worker)
JoinCall(us, as_worker) == [nodes |-> us, as_worker |-> as_worker]

\* deploy_units has filled self.units; form_cluster is called with a count
\* that parse_arguments does not bound from below
InitSetup ==
    /\ \E n \in 0..MaxNodes :
        /\ self_units = [i \in 1..n |-> Unit(UnitNames(n)[i])]
        /\ control_plane \in 0..(n + 1)
    /\ cluster = NoCluster
    /\ spc = "new"
    /\ joins = <<>>
    /\ max_wait = 0
    /\ clock = 0
    /\ ready = {}
    /\ joined = "none"
    /\ warnings = <<>>
    /\ KubeIdle
    /\ LatencyIdle
    /\ MetricsIdle
    /\ CollectorIdle
    /\ ExperimentIdle
    /\ JujuIdle

\* form_cluster up to the call of wait_for_nodes_to_join and its
\* `start = time.time()`; get_join_cluster_url and join_nodes_to_cluster raise
\* CalledProcessError when the juju command fails
FormCluster ==
    /\ spc = "new"
    /\ IF self_units = <<>>
       THEN \* units.pop(0): IndexError
            /\ spc' = "raised"
            /\ UNCHANGED <<cluster, joins, max_wait>>
       ELSE LET master_node == Head(self_units)
                units == Tail(self_units)
                cp == remaining_control_plane(control_plane)
                cp_units == SliceTo(units, cp)
                w_units == SliceFrom(units, cp)
                single == ClusterInfo(master_node, <<master_node>>, <<>>)
                cp_call == IF cp_units = <<>> THEN <<>> ELSE <<JoinCall(cp_units, FALSE)>>
                w_call == IF w_units = <<>> THEN <<>> ELSE <<JoinCall(w_units, TRUE)>>
                with_cp == ClusterInfo(master_node, <<master_node>> \o cp_units, <<>>)
            IN  IF units = <<>>
                THEN /\ cluster' = single
                     /\ spc' = "returned"
                     /\ UNCHANGED <<joins, max_wait>>
                ELSE \E failed \in {"none", "url"}
                                   \cup (IF cp_units = <<>> THEN {} ELSE {"control_plane"})
                                   \cup (IF w_units = <<>> THEN {} ELSE {"workers"}) :
                        /\ joins' = CASE failed = "url" -> <<>>
                                      [] failed = "control_plane" -> cp_call
                                      [] OTHER -> cp_call \o w_call
                        /\ cluster' = CASE failed \in {"url", "control_plane"} -> single
                                        [] failed = "workers" -> with_cp
                                        [] OTHER -> ClusterInfo(master_node,
                                                                <<master_node>> \o cp_units,
                                                                w_units)
                        /\ spc' = IF failed = "none" THEN "wait" ELSE "raised"
                        /\ max_wait' = IF failed = "none" THEN form_cluster_max_wait
                                       ELSE max_wait
    /\ UNCHANGED <<self_units, control_plane, clock, ready, joined, warnings>>
    /\ UNCHANGED programVars
    /\ UNCHANGED <<kubeVars, latencyVars>>

\* a node that joined shows up as Ready in `kubectl get nodes`
NodeReady ==
    /\ spc \in {"wait", "sleep"}
    /\ \E u \in NodeNames(nodes(cluster)) \ ready : ready' = ready \cup {u}
    /\ UNCHANGED <<self_units, control_plane, cluster, spc, joins, max_wait, clock, joined,
                   warnings>>
    /\ UNCHANGED programVars
    /\ UNCHANGED <<kubeVars, latencyVars>>

\* one pass of the loop of wait_for_nodes_to_join up to the sleep:
\* all_nodes_joined, which runs kubectl in the master unit and may raise, then
\* the check of the time elapsed
WaitCheck ==
    /\ spc = "wait"
    /\ \E d \in 0..MaxCheckTime, raised \in BOOLEAN :
        /\ clock' = clock + d
        /\ joined' = IF raised THEN "raised"
                     ELSE IF all_nodes_joined(cluster, ready) THEN "all" ELSE "some"
        /\ IF joined' = "raised"
           THEN spc' = "raised" /\ UNCHANGED warnings
           ELSE IF joined' = "all"
           THEN spc' = "returned" /\ UNCHANGED warnings
           ELSE IF timed_out(clock', max_wait)
           THEN /\ spc' = "returned"
                /\ warnings' = Append(warnings, "Some nodes haven't joined the cluster yet")
           ELSE spc' = "sleep" /\ UNCHANGED warnings
    /\ UNCHANGED <<self_units, control_plane, cluster, joins, max_wait, ready>>
    /\ UNCHANGED programVars
    /\ UNCHANGED <<kubeVars, latencyVars>>

\* wait_for_nodes_to_join: time.sleep(check_period)
WaitSleep ==
    /\ spc = "sleep"
    /\ clock' = clock + check_period
    /\ spc' = "wait"
    /\ UNCHANGED <<self_units, control_plane, cluster, joins, max_wait, ready, joined,
                   warnings>>
    /\ UNCHANGED programVars
    /\ UNCHANGED <<kubeVars, latencyVars>>

NextSetup == FormCluster \/ NodeReady \/ WaitCheck \/ WaitSleep

\* the process running form_cluster keeps running: a check that is due is
\* made, a sleep ends
SpecSetup ==
    InitSetup /\ [][NextSetup]_vars /\ WF_vars(WaitCheck) /\ WF_vars(WaitSleep)

\* ------------------------------------------------------------------ fetch_kubeconfig
\* A caller using one fetch_kubeconfig object as the scope of a with
\* statement, as bootstrap_experiment does; inside the scope its public
\* methods may be called on the same file, as KubeBurnerWorkload._start does.

\* str(self.config_file): the path given, by default ~/.kube/config_{model}
config_path(given) == IF given = <<>> THEN "~/.kube/config_model" ELSE given[1]

\* mutant: an unlink whose FileNotFoundError escapes
unlink_kubeconfig(file) == [file |-> "absent", raised |-> file = "absent"]

\* cleanup_kubeconfig: os.unlink(self.config_file); FileNotFoundError is passed
cleanup_kubeconfig(file) == [file |-> "absent", raised |-> FALSE]

\* set: os.environ["KUBECONFIG"] = str(self.config_file)
set(env, given) == config_path(given)

\* unset: os.environ.pop("KUBECONFIG", None)
unset(env) == Unset

InitKube ==
    /\ parent_exists \in BOOLEAN
    /\ config_file \in (IF parent_exists THEN {"absent", "stale"} ELSE {"absent"})
    /\ KUBECONFIG \in {Unset, "/etc/kube/other"}
    /\ cleanup \in BOOLEAN
    /\ config_arg \in {None, Some("/tmp/fake_kube_config")}
    /\ kpc = "new"
    /\ body_exc = FALSE
    /\ entries = 0
    /\ SetupIdle
    /\ LatencyIdle
    /\ MetricsIdle
    /\ CollectorIdle
    /\ ExperimentIdle
    /\ JujuIdle

\* __enter__: fetch_kubeconfig_from_cluster, then set. When
\* cluster.fetch_kubeconfig raises, nothing has been written, the scope is not
\* entered and __exit__ is not called
KubeEnter ==
    /\ kpc \in {"new", "left"}
    /\ entries < MaxEntries
    /\ entries' = entries + 1
    /\ body_exc' = FALSE
    /\ \E fetched \in BOOLEAN :
        IF fetched
        THEN /\ parent_exists' = TRUE
             /\ config_file' = "cluster"
             /\ KUBECONFIG' = set(KUBECONFIG, config_arg)
             /\ kpc' = "body"
        ELSE /\ kpc' = "aborted"
             /\ UNCHANGED <<parent_exists, config_file, KUBECONFIG>>
    /\ UNCHANGED <<cleanup, config_arg>>
    /\ UNCHANGED <<programVars, setupVars, latencyVars>>

\* inside the scope: cleanup_kubeconfig() called on the file
KubeBodyCleanup ==
    /\ kpc = "body"
    /\ LET r == cleanup_kubeconfig(config_file)
       IN  /\ config_file' = r.file
           /\ body_exc' = r.raised
           /\ kpc' = IF r.raised THEN "exit" ELSE kpc
    /\ UNCHANGED <<parent_exists, KUBECONFIG, cleanup, config_arg, entries>>
    /\ UNCHANGED <<programVars, setupVars, latencyVars>>

\* inside the scope: fetch_kubeconfig_from_cluster() and set() called again
KubeBodyFetch ==
    /\ kpc = "body"
    /\ \E fetched \in BOOLEAN :
        IF fetched
        THEN /\ config_file' = "cluster"
             /\ KUBECONFIG' = set(KUBECONFIG, config_arg)
             /\ UNCHANGED <<kpc, body_exc>>
        ELSE /\ body_exc' = TRUE
             /\ kpc' = "exit"
             /\ UNCHANGED <<config_file, KUBECONFIG>>
    /\ UNCHANGED <<parent_exists, cleanup, config_arg, entries>>
    /\ UNCHANGED <<programVars, setupVars, latencyVars>>

\* inside the scope: unset() or set() called, as KubeBurnerWorkload does
KubeBodyEnv ==
    /\ kpc = "body"
    /\ KUBECONFIG' \in {unset(KUBECONFIG), set(KUBECONFIG, config_arg)}
    /\ UNCHANGED <<config_file, parent_exists, cleanup, config_arg, kpc, body_exc, entries>>
    /\ UNCHANGED <<programVars, setupVars, latencyVars>>

\* the body of the scope ends, normally or with an exception
KubeBodyEnds ==
    /\ kpc = "body"
    /\ body_exc' \in BOOLEAN
    /\ kpc' = "exit"
    /\ UNCHANGED <<config_file, parent_exists, KUBECONFIG, cleanup, config_arg, entries>>
    /\ UNCHANGED <<programVars, setupVars, latencyVars>>

\* __exit__(*exc): cleanup_kubeconfig when cleanup is set, then unset; it
\* returns None, so what the body raised goes on to the caller
KubeExit ==
    /\ kpc = "exit"
    /\ kpc' = "left"
    /\ IF cleanup
       THEN LET r == cleanup_kubeconfig(config_file)
            IN  /\ config_file' = r.file
                /\ IF r.raised
                   THEN body_exc' = TRUE /\ UNCHANGED KUBECONFIG
                   ELSE KUBECONFIG' = unset(KUBECONFIG) /\ UNCHANGED body_exc
       ELSE /\ KUBECONFIG' = unset(KUBECONFIG)
            /\ UNCHANGED <<config_file, body_exc>>
    /\ UNCHANGED <<parent_exists, cleanup, config_arg, entries>>
    /\ UNCHANGED <<programVars, setupVars, latencyVars>>

NextKube ==
    KubeEnter \/ KubeBodyCleanup \/ KubeBodyFetch \/ KubeBodyEnv \/ KubeBodyEnds \/ KubeExit

SpecKube == InitKube /\ [][NextKube]_vars

\* ------------------------------------------------------------------ APIServerLatency
\* Latencies are counted in units of 0.0001 s, the precision of round(value, 4).
\* math.inf, the bound of the "+Inf" bucket; arithmetic on it is Times/Plus below
Inf == 1000000
\* the `le` bounds of a series, in the order the apiserver prints them:
\* 0.05, 0.1, +Inf
Les == <<500, 1000, Inf>>
\* __init__: `params=[50, 90, 95, 99]`
percentile_params == <<50, 90, 95, 99>>
\* get_latency_percentiles: `statistics.quantiles(samples, n=100)`
quantiles_n == 100

\* ---- a dict, as the sequence of its <<key, value>> items in insertion order
Keys(d) == {d[i][1] : i \in 1..Len(d)}
Get(d, k) == d[CHOOSE i \in 1..Len(d) : d[i][1] = k][2]
Put(d, k, v) ==
    IF k \in Keys(d)
    THEN [i \in 1..Len(d) |-> IF d[i][1] = k THEN <<k, v>> ELSE d[i]]
    ELSE Append(d, <<k, v>>)

RECURSIVE SumValues(_)
\* sum(list(d.values()))
SumValues(d) == IF d = <<>> THEN 0 ELSE d[1][2] + SumValues(Tail(d))

\* ---- the text poll_metrics returns, one record per line
BucketLine(verb, le, n) == [bucket |-> TRUE, verb |-> verb, le |-> le, samples |-> n]
OtherLine(verb, n) == [bucket |-> FALSE, verb |-> verb, le |-> 0, samples |-> n]

\* the lines of one series: a _bucket line per bound, then _sum and _count
SeriesLines(sr) ==
    [i \in 1..Len(Les) |-> BucketLine(sr.verb, Les[i], sr.counts[i])]
        \o <<OtherLine(sr.verb, 0), OtherLine(sr.verb, sr.counts[Len(Les)])>>

RECURSIVE ConcatLines(_)
ConcatLines(srv) ==
    IF srv = <<>> THEN <<>> ELSE SeriesLines(srv[1]) \o ConcatLines(Tail(srv))

\* poll_metrics: the grep'ed /metrics output of every control-plane unit,
\* concatenated
poll_metrics(srv) == ConcatLines(srv)

RECURSIVE BucketsFrom(_, _)
BucketsFrom(lines, buckets) ==
    IF lines = <<>> THEN buckets
    ELSE LET line == lines[1]
         IN  IF ~line.bucket \/ line.verb = "WATCH"
             THEN BucketsFrom(Tail(lines), buckets)
             ELSE BucketsFrom(Tail(lines),
                              Put(buckets, line.le,
                                  (IF line.le \in Keys(buckets)
                                   THEN Get(buckets, line.le) ELSE 0) + line.samples))

\* get_buckets: lines without "_bucket" and lines of WATCH requests are
\* skipped; the counts of the others are added up per bound, a new bound
\* taking the next place in the dict
get_buckets(output) == BucketsFrom(output, <<>>)

RECURSIVE Subtract(_, _)
\* parse_latencies, first loop: `buckets[latency] -= value` for every item of
\* the checkpoint; a bound the polled buckets lack raises KeyError
Subtract(buckets, checkpoint) ==
    IF checkpoint = <<>> THEN [raised |-> FALSE, buckets |-> buckets]
    ELSE LET k == checkpoint[1][1]
             v == checkpoint[1][2]
         IN  IF k \notin Keys(buckets)
             THEN [raised |-> TRUE, buckets |-> buckets]
             ELSE Subtract(Put(buckets, k, Get(buckets, k) - v), Tail(checkpoint))

\* parse_latencies, second loop: each value minus the value visited before it
derivative(buckets) ==
    [i \in 1..Len(buckets) |->
        <<buckets[i][1], buckets[i][2] - (IF i = 1 THEN 0 ELSE buckets[i - 1][2])>>]

\* parse_latencies(buckets), which changes buckets in place
parse_latencies(buckets, checkpoint) ==
    LET sub == Subtract(buckets, checkpoint)
    IN  [raised |-> sub.raised,
         buckets |-> sub.buckets,
         latencies |-> IF sub.raised THEN <<>> ELSE derivative(sub.buckets)]

RECURSIVE Repeat(_, _)
\* [x for _ in range(n)]: empty for n <= 0
Repeat(x, n) == IF n <= 0 THEN <<>> ELSE <<x>> \o Repeat(x, n - 1)

RECURSIVE Simulate(_)
\* `[latency for latency, value in latencies.items() for _ in range(value)]`
Simulate(latencies) ==
    IF latencies = <<>> THEN <<>>
    ELSE Repeat(latencies[1][1], latencies[1][2]) \o Simulate(Tail(latencies))

\* ---- float arithmetic on the synthetic samples: a finite value, inf, -inf
\* or nan
Num(v) == [kind |-> "num", v |-> v]
PosInf == [kind |-> "inf", v |-> 0]
NegInf == [kind |-> "-inf", v |-> 0]
NaN == [kind |-> "nan", v |-> 0]

\* x * k for a sample x and an integer k
Times(x, k) ==
    IF x # Inf THEN Num(x * k)
    ELSE IF k > 0 THEN PosInf ELSE IF k < 0 THEN NegInf ELSE NaN

\* a + b
Plus(a, b) ==
    CASE a.kind = "nan" \/ b.kind = "nan" -> NaN
      [] a.kind = "num" /\ b.kind = "num" -> Num(a.v + b.v)
      [] a.kind = "num" -> b
      [] b.kind = "num" -> a
      [] a.kind = b.kind -> a
      [] OTHER -> NaN

\* round(a / n, 4), to the nearest unit and to the even one on a tie
RoundedQuotient(a, n) ==
    IF a.kind # "num" THEN a
    ELSE LET q == a.v \div n
             r == a.v % n
         IN  Num(IF 2 * r < n THEN q
                 ELSE IF 2 * r > n THEN q + 1
                 ELSE IF q % 2 = 0 THEN q ELSE q + 1)

RECURSIVE Insert(_, _)
Insert(x, sorted) ==
    IF sorted = <<>> \/ x <= sorted[1] THEN <<x>> \o sorted
    ELSE <<sorted[1]>> \o Insert(x, Tail(sorted))

RECURSIVE Sorted(_)
\* sorted(data)
Sorted(data) == IF data = <<>> THEN <<>> ELSE Insert(data[1], Sorted(Tail(data)))

\* statistics.quantiles(data, n), method 'exclusive': the i-th cut point of the
\* sorted data, already divided by n and rounded as get_latency_percentiles
\* rounds it
Cut(data, n, i) ==
    LET ld == Len(data)
        m == ld + 1
        j0 == (i * m) \div n
        j == IF j0 < 1 THEN 1 ELSE IF j0 > ld - 1 THEN ld - 1 ELSE j0
        delta == i * m - j * n
    IN  RoundedQuotient(Plus(Times(data[j], n - delta), Times(data[j + 1], delta)), n)

\* the argument of get_latency_percentiles: the list its signature asks for,
\* or the single parameter ParametrizedField.collect hands to its callable
ListArg == [kind |-> "list", v |-> percentile_params]
IntArg(i) == [kind |-> "int", v |-> <<percentile_params[i]>>]

\* get_latency_percentiles(percentiles) on the output polled, with the
\* checkpoint held: the buckets, the derived counts, the synthetic samples and
\* what is returned or raised
get_latency_percentiles(arg, output, checkpoint) ==
    LET polled == get_buckets(output)
        parsed == parse_latencies(polled, checkpoint)
        samples_ == Simulate(parsed.latencies)
        data == Sorted(samples_)
        call == [NoCall EXCEPT !.arg = arg.kind, !.polled = polled,
                               !.checkpoint = checkpoint]
    IN  IF parsed.raised
        THEN [call EXCEPT !.kind = "KeyError"]
        ELSE IF Len(data) < 2
        THEN [call EXCEPT !.kind = "StatisticsError", !.latencies = parsed.latencies,
                          !.samples = samples_]
        ELSE IF arg.kind = "int"
        THEN [call EXCEPT !.kind = "TypeError", !.latencies = parsed.latencies,
                          !.samples = samples_]
        ELSE [call EXCEPT !.kind = "returned", !.latencies = parsed.latencies,
                          !.samples = samples_,
                          !.value = [p \in 1..Len(arg.v) |->
                                        <<arg.v[p], Cut(data, quantiles_n, arg.v[p])>>]]

\* ------------------------------------------------------------------ SpecLatency
\* One APIServerLatency polling control-plane apiservers that serve requests.
Verbs == {"GET", "LIST", "WATCH"}

Served == IF server = <<>> THEN 0
          ELSE SumValues([i \in 1..Len(server) |-> <<i, server[i].counts[Len(Les)]>>])

InitLatency ==
    /\ server = <<>>
    /\ checkpoint_buckets = <<>>
    /\ checkpoint_requests = 0
    /\ last_total_requests = 0
    /\ lat = NoCall
    /\ SetupIdle
    /\ KubeIdle
    /\ MetricsIdle
    /\ CollectorIdle
    /\ ExperimentIdle
    /\ JujuIdle

\* an apiserver serves a request of some verb whose latency falls into the
\* b-th bucket: the series of the verb, printed from then on, counts it in that
\* bucket and in every wider one
Observe ==
    /\ Served < MaxRequests
    /\ \E verb \in Verbs, b \in 1..Len(Les) :
        LET hit == [i \in 1..Len(Les) |-> IF i >= b THEN 1 ELSE 0]
            at == {i \in 1..Len(server) : server[i].verb = verb}
        IN  server' = IF at = {}
                      THEN Append(server, [verb |-> verb, counts |-> hit])
                      ELSE [i \in 1..Len(server) |->
                              IF i \in at
                              THEN [server[i] EXCEPT
                                      !.counts = [k \in 1..Len(Les) |-> @[k] + hit[k]]]
                              ELSE server[i]]
    /\ lat' = NoCall
    /\ UNCHANGED <<checkpoint_buckets, checkpoint_requests, last_total_requests>>
    /\ UNCHANGED <<programVars, setupVars, kubeVars>>

\* the apiservers restart: their counters start over
Restart ==
    /\ server # <<>>
    /\ server' = <<>>
    /\ lat' = NoCall
    /\ UNCHANGED <<checkpoint_buckets, checkpoint_requests, last_total_requests>>
    /\ UNCHANGED <<programVars, setupVars, kubeVars>>

\* checkpoint(), with at least one line of the metric printed
Checkpoint ==
    /\ server # <<>>
    /\ LET buckets == get_buckets(poll_metrics(server))
       IN  /\ checkpoint_buckets' = buckets
           /\ checkpoint_requests' = SumValues(buckets)
    /\ lat' = NoCall
    /\ UNCHANGED <<server, last_total_requests>>
    /\ UNCHANGED <<programVars, setupVars, kubeVars>>

\* get_latency_percentiles called with the list of percentiles, or by
\* Metric.sample through the field "latency(s)" with one percentile;
\* _last_total_requests is set from the buckets parse_latencies has changed
GetLatencyPercentiles ==
    /\ server # <<>>
    /\ \E arg \in {ListArg, IntArg(1)} :
        /\ lat' = get_latency_percentiles(arg, poll_metrics(server), checkpoint_buckets)
        /\ last_total_requests' =
              IF lat'.kind = "KeyError" THEN last_total_requests
              ELSE SumValues(Subtract(lat'.polled, checkpoint_buckets).buckets)
    /\ UNCHANGED <<server, checkpoint_buckets, checkpoint_requests>>
    /\ UNCHANGED <<programVars, setupVars, kubeVars>>

NextLatency == Observe \/ Restart \/ Checkpoint \/ GetLatencyPercentiles

SpecLatency == InitLatency /\ [][NextLatency]_vars

\* ------------------------------------------------------------------ claims on Metric
IsParam(f) == f.kind = "parametrized"
ParamPositions(fs) == {i \in 1..Len(fs) : IsParam(fs[i])}

\* the row a sample() call (the n-th) is to produce when parameter sel[i] is
\* chosen for the parametrized field at position i: the columns in field order
RECURSIVE RowOf(_, _, _, _)
RowOf(fs, i, n, sel) ==
    IF i > Len(fs) THEN <<>>
    ELSE (IF fs[i].kind = "constant" THEN <<fs[i].value>>
          ELSE IF fs[i].kind = "variable" THEN <<VariableCallable(n)>>
          ELSE <<fs[i].params[sel[i]],
                 ParametrizedCallable(fs[i].params[sel[i]], n)>>)
         \o RowOf(fs, i + 1, n, sel)

\* the rows a step appends to the metric
Appended == SubSeq(samples'[1], Len(samples[1]) + 1, Len(samples'[1]))

\* the step is a sample() call that returned
SampleReturned ==
    /\ calls'[1] = calls[1] + 1
    /\ lastSample' = "ok"
    /\ Len(samples'[1]) >= Len(samples[1])

\* C8 (as claimed): for every ordered field list, every row of samples has
\* length len(field_names), a parametrized field counting two columns.
C8_RowLenIsFieldNames ==
    \A r \in 1..Len(samples[1]) :
        Len(samples[1][r]) = Len(field_names(fields[1]))

\* C9 (as claimed): with exactly one parametrized field over k parameters and
\* otherwise only scalar fields, before and/or after it, one sample() call
\* appends exactly k rows, one per parameter in parameter order, with the same
\* scalar values.
C9_OneParamAppendsK ==
    [][(SampleReturned /\ Cardinality(ParamPositions(fields[1])) = 1) =>
        LET fs == fields[1]
            q == CHOOSE i \in ParamPositions(fs) : TRUE
            k == Len(fs[q].params)
        IN  Appended = [j \in 1..k |-> RowOf(fs, 1, calls'[1], [i \in 1..Len(fs) |-> j])]
      ]_vars

\* C10 (as claimed): with two parametrized fields over k1 and k2 parameters
\* plus scalar fields, one sample() call appends the k1*k2 rows of the
\* Cartesian product in row-major order: the earlier field varies slowest.
C10_TwoParamsCartesian ==
    [][(SampleReturned /\ Cardinality(ParamPositions(fields[1])) = 2) =>
        LET fs == fields[1]
            q1 == CHOOSE i \in ParamPositions(fs) : \A j \in ParamPositions(fs) : i <= j
            q2 == CHOOSE i \in ParamPositions(fs) : \A j \in ParamPositions(fs) : i >= j
            k1 == Len(fs[q1].params)
            k2 == Len(fs[q2].params)
        IN  Appended =
              [r \in 1..(k1 * k2) |->
                 RowOf(fs, 1, calls'[1],
                       [i \in 1..Len(fs) |-> IF i = q1 THEN ((r - 1) \div k2) + 1
                                             ELSE ((r - 1) % k2) + 1])]
      ]_vars

\* only constant and variable fields, and at least one of them
ScalarOnly(fs) == fs # <<>> /\ ParamPositions(fs) = {}

\* the step is a sample() call out of which a producer raised
SampleRaised ==
    /\ calls'[1] = calls[1] + 1
    /\ lastSample' = "raised"

\* C11: on a Metric with only scalar fields and at least one field, every
\* successful sample() call appends exactly one row, the row of that call, at
\* the end of samples; samples being empty at construction and after clear(),
\* after n successful calls with no clear() len(samples) = n and the rows stand
\* in call order.
C11_ScalarSampleAppendsOneRow ==
    [][(SampleReturned /\ ScalarOnly(fields[1])) =>
        samples'[1] = Append(samples[1],
                             RowOf(fields[1], 1, calls'[1], [i \in 1..Len(fields[1]) |-> 1]))
      ]_vars

\* two successful calls on a metric with a variable field: two rows, the
\* first call's first
C11_Witness ==
    /\ ScalarOnly(fields[1])
    /\ \E i \in 1..Len(fields[1]) : fields[1][i].kind = "variable"
    /\ calls[1] = 2
    /\ samples[1] = <<RowOf(fields[1], 1, 1, [i \in 1..Len(fields[1]) |-> 1]),
                      RowOf(fields[1], 1, 2, [i \in 1..Len(fields[1]) |-> 1])>>

\* C14: a sample() call during which a producer raises, at whatever field
\* position, ends raised to its caller and leaves samples exactly as it was.
C14_RaisingSampleLeavesSamples ==
    [][SampleRaised => samples' = samples]_vars

\* the second call raised in the producer of the second field, after the
\* constant first field had been collected; the row of the first call is all
\* there is
C14_Witness ==
    /\ Len(fields[1]) = 2
    /\ fields[1][1].kind = "constant"
    /\ fields[1][2].kind = "variable"
    /\ calls[1] = 2
    /\ lastSample = "raised"
    /\ Len(samples[1]) = 1

\* the cells csv.writer writes for the values the producers yield
NumberCells == {Str(n) : n \in 0..(10 * (MaxParams + 1) + MaxCalls)}

\* a line of column names (an empty line for a metric without fields), as
\* opposed to a line of sampled values
IsHeaderLine(line) == line = <<>> \/ line[1] \notin NumberCells

\* the step is a dump() call
DumpCalled == hist'.dumps = hist.dumps + 1

\* C12: whatever instances of the name dump into the directory, in whatever
\* order and state: a dump leaves every line already in the file in place and
\* appends exactly its instance's rows, in order, after the header it writes
\* into a new file only; so the file has exactly one header line, its first,
\* and a dump without samples into a new file leaves the header alone.
C12_DumpAppendsUnderOneHeader ==
    [][/\ DumpCalled =>
            LET old == IF files[1] = Absent THEN <<>> ELSE files[1]
                head == IF files[1] = Absent THEN 1 ELSE 0
            IN  /\ Len(files'[1]) = Len(old) + head + Len(samples[1])
                /\ SubSeq(files'[1], 1, Len(old)) = old
                /\ head = 1 => files'[1][1] = field_names(fields[1])
                /\ SubSeq(files'[1], Len(old) + head + 1, Len(files'[1]))
                       = CsvRows(samples[1])
                /\ (head = 1 /\ samples[1] = <<>>) =>
                       files'[1] = <<field_names(fields[1])>>
       /\ ~DumpCalled => files' = files
       /\ files'[1] # Absent =>
            {i \in 1..Len(files'[1]) : IsHeaderLine(files'[1][i])} = {1}
      ]_vars

\* test_dump_appends with two classes: an instance with one variable field
\* sampled and dumped, then a MyTestMetric of the same name sampled and dumped
C12_Witness ==
    /\ instances = 2
    /\ fields[1] = MyTestMetric
    /\ files[1] = << <<"f1">>, <<"1">>, <<"10", "1">> >>

\* ------------------------------------------------------------------ claims on MetricsCollector
\* a scope has been left: __exit__ returned or raised, no new scope entered
ExitDone == pc = "idle" /\ exitResult # "none"

\* what leaves the with statement: the exception __exit__ raised, else (as
\* __exit__ returns None) the exception of the body, else nothing
WithOutcome ==
    IF exitResult = "raised" THEN "sampling exception"
    ELSE IF bodyRaised THEN "body exception"
    ELSE "normal"

Running == {m \in 1..NMetrics : sampler[m] = "running"}

\* C1: if a producer raised during a sampling tick of the scope, leaving the
\* scope raises that exception (of the first failing metric in registration
\* order); the exit never returns normally after a sampling failure.
C1_SamplingFailureRaisedAtExit ==
    (ExitDone /\ hist.raised # {}) =>
        /\ exitResult = "raised"
        /\ exitExc \in hist.raised
        /\ \A m \in hist.raised : exitExc <= m

C1_Witness ==
    /\ ExitDone
    /\ NMetrics = 2
    /\ hist.raised = {2}
    /\ exitResult = "raised"
    /\ exitExc = 2

\* C2 (as claimed): for a non-empty metric list, in every interleaving, when
\* the stop of the scope exit has returned at least one sample() call on each
\* metric has finished.
C2_SampledBeforeStopReturns ==
    (ExitDone /\ exitResult = "returned" /\ NMetrics > 0) =>
        \A m \in 1..NMetrics : hist.completed[m] >= 1

\* C3 (as claimed): after __exit__ completes on any path the collector is
\* back in the not-started state and its poll thread has ended.
C3_IdleAfterExit ==
    ExitDone => (~started /\ pollpc \in {"none", "dead"})

\* C4: the dump and clear of an exit start only after the stop flag is set and
\* the poll thread has been joined: from then on no sample() call on a managed
\* metric is running.
C4_NoSampleDuringDump ==
    hist.dumping =>
        /\ stop_event
        /\ pollpc = "dead"
        /\ Running = {}

C4_Witness ==
    /\ pc = "clear"
    /\ store_at = "path"
    /\ NMetrics = 2
    /\ \A m \in 1..NMetrics : Len(files[m]) > 1

C6_EmptyNeverStarts ==
    NMetrics = 0 =>
        /\ thread = 0
        /\ ~started
        /\ pollpc = "none"
        /\ pc \notin {"join", "dump", "clear"}
        /\ hist.stops = 0
        /\ hist.dumps = 0
        /\ hist.clears = 0

C6_Witness ==
    /\ NMetrics = 0
    /\ ExitDone
    /\ scopes = 2

\* C7: when the body of a started scope raised and sampling did not fail, the
\* exit has stopped and joined the poll thread, dumped every metric to store_at
\* (the CSV exists, its first line the header), cleared the samples, and the
\* body's exception leaves the with statement.
C7_BodyExceptionStillDumps ==
    (ExitDone /\ bodyRaised /\ NMetrics > 0 /\ hist.raised = {}) =>
        /\ WithOutcome = "body exception"
        /\ hist.stops = 1
        /\ pollpc = "dead"
        /\ \A m \in 1..NMetrics : samples[m] = <<>>
        /\ store_at = "path" =>
              /\ dirExists
              /\ \A m \in 1..NMetrics :
                    /\ files[m] # Absent
                    /\ Len(files[m]) >= 1
                    /\ files[m][1] = field_names(fields[m])

C7_Witness ==
    /\ ExitDone
    /\ bodyRaised
    /\ NMetrics = 2
    /\ hist.raised = {}
    /\ store_at = "path"
    /\ WithOutcome = "body exception"
    /\ \A m \in 1..NMetrics : Len(files[m]) > 1

\* the row the k-th sample() call of metric m yields
RowOfCall(m, k) == RowOf(fields[m], 1, k, [i \in 1..Len(fields[m]) |-> 1])

\* C13: with store_at set, over consecutive scopes on the same metrics none
\* of which ended in a sampling exception: once an exit has returned, the CSV
\* of every metric is its header followed by the row of every sample() call
\* made so far, each exactly once and in sampling order, and samples is empty;
\* and the step that clears the samples leaves every file as it is.
C13_EveryRowWrittenOnce ==
    /\ [](( /\ ExitDone
            /\ exitResult = "returned"
            /\ store_at = "path"
            /\ NMetrics > 0) =>
           \A m \in 1..NMetrics :
              /\ samples[m] = <<>>
              /\ files[m] = <<field_names(fields[m])>>
                              \o [k \in 1..calls[m] |-> CsvRow(RowOfCall(m, k))])
    /\ [][pc = "clear" => files' = files]_vars

\* the second scope has been left, rows were sampled in the first and in the
\* second, and all of them are in the file
C13_Witness ==
    /\ ExitDone
    /\ exitResult = "returned"
    /\ store_at = "path"
    /\ scopes = 2
    /\ NMetrics > 0
    /\ hist.completed[1] > 0
    /\ calls[1] > hist.completed[1]
    /\ Len(files[1]) = calls[1] + 1

\* C26: once the stop flag is set the poll thread starts no new tick: it ends
\* at its next check of the flag, after at most the tick that had passed the
\* check before; stop_thread's join then returns and the scope exit ends, by
\* returning or by raising what a sampling thread raised.
C26_StopCompletes ==
    /\ [][(stop_event /\ stop_event') => ticks' = ticks]_vars
    /\ [][(pollpc = "check" /\ stop_event /\ pollpc' # pollpc) => pollpc' = "dead"]_vars
    /\ (pc = "join") ~> (pollpc = "dead")
    /\ (pc = "exit") ~> (pc = "idle" /\ exitResult \in {"returned", "raised"})

\* a scope left by a return after the poll thread, stopped while it was
\* running ticks, has ended
C26_Witness ==
    /\ pc = "idle"
    /\ exitResult = "returned"
    /\ hist.stops = 1
    /\ stop_event
    /\ pollpc = "dead"
    /\ ticks >= 1
    /\ NMetrics >= 1
    /\ \A m \in 1..NMetrics : hist.completed[m] >= 1

\* C28: when a scope exit has returned or raised, no thread of the collector is
\* still running, neither the poll thread nor a sampling thread of a tick:
\* also when one metric's sampling raised, the sampling threads of the other
\* metrics have been joined before the exception reaches the caller.
C28_NoThreadOutlivesExit ==
    ExitDone => (pollpc \in {"none", "dead"} /\ Running = {})

\* ------------------------------------------------------------------ claims on the juju client
\* the targets of a run call that are given: neither None nor empty
Given ==
    {a \in {"unit", "units", "app"} :
        \/ a = "unit" /\ req.unit \notin {None, Some("")}
        \/ a = "units" /\ req.units \notin {None, Some(<<>>)}
        \/ a = "app" /\ req.app \notin {None, Some("")}}

\* ['-x', value] when the option is given, nothing otherwise
Flag(flag, o) == IF o \in {None, Some("")} THEN <<>> ELSE <<flag, o[1]>>

\* C19: a run call with none or with more than one of unit, units, app given
\* raises ValueError and starts no juju subprocess; with exactly one it makes
\* one invocation: run, -m model, --timeout t, --format f as far as given
\* and in that order, -a app or -u with the unit names joined by commas, --,
\* the command.
C19_RunNeedsExactlyOneTarget ==
    (req.fn = "run" /\ result.kind # "none") =>
        IF Cardinality(Given) = 1
        THEN /\ result.kind = "response"
             /\ invocations =
                  << <<"run">> \o Flag("-m", req.model) \o Flag("--timeout", req.timeout)
                     \o Flag("--format", req.format)
                     \o (IF "app" \in Given THEN <<"-a", req.app[1]>>
                         ELSE IF "unit" \in Given THEN <<"-u", req.unit[1]>>
                         ELSE <<"-u", Join(",", req.units[1])>>)
                     \o <<"--">> \o req.command >>
        ELSE /\ result.kind = "ValueError"
             /\ invocations = <<>>

\* two units, every option given
C19_Witness ==
    /\ req.fn = "run"
    /\ invocations = << <<"run", "-m", "foobar", "--timeout", "10s", "--format", "json",
                          "-u", "u1,u2", "--", "ls", "-l">> >>

\* C20 (as claimed): once the juju command of run_in_unit or run_in_units has
\* run, a non-zero exit status (with check left True) ends the call in a
\* ClusterCommandError carrying the command, the decoded stdout and the
\* decoded stderr (stripped), after one record of level ERROR; a zero exit
\* status, or check=False, ends it returning the response, nothing logged.
C20_NonZeroExitRaisesClusterCommandError ==
    (req.fn \in {"run_in_unit", "run_in_units"} /\ invocations # <<>>) =>
        IF proc.returncode # 0 /\ (req.fn = "run_in_units" \/ req.check)
        THEN /\ result.kind = "ClusterCommandError"
             /\ result.command = req.command
             /\ result.stdout = decode(proc.stdout)
             /\ result.stderr = strip(decode(proc.stderr))
             /\ Len(log) = 1
             /\ log[1].level = "ERROR"
        ELSE /\ result = Response
             /\ log = <<>>

\* ------------------------------------------------------------------ claims on Experiment
\* the positions of the "workload" fields of metric m
WorkloadFields(m) == {i \in 1..Len(fields[m]) : fields[m][i].name = "workload"}

\* C15 (as claimed): while the collector of workload i is in use every metric
\* has exactly one "workload" field, valued with the id of workload i; before
\* the next workload and after the last every metric has the field list it
\* was registered with; every line of a CSV has as many columns as its header.
C15_WorkloadFieldTransient ==
    \A m \in 1..NMetrics :
        /\ epc \in {"with", "wait", "exit"} =>
              \E i \in 1..Len(fields[m]) :
                  /\ WorkloadFields(m) = {i}
                  /\ fields[m][i].value = workload_id(WorkloadAt(workload, workloads))
        /\ epc \in {"create", "teardown", "kubeexit", "done"} => fields[m] = MyTestMetric
        /\ files[m] # Absent =>
              \A r \in 1..Len(files[m]) : Len(files[m][r]) = Len(files[m][1])

\* C16: once the kube config is installed, teardown() has not been called
\* before the try block is left and has been called exactly once from then on;
\* when it returned, run raises what bootstrap/start raised if that was an
\* ordinary exception and returns normally if they returned or raised
\* KeyboardInterrupt.
C16_TeardownExactlyOnce ==
    /\ epc \in {"bootstrap", "create", "init", "with", "wait", "exit", "teardown"} =>
          teardowns = <<>>
    /\ epc \in {"kubeexit", "done"} => Len(teardowns) = 1
    /\ (epc = "done" /\ teardowns = <<"ok">>) =>
          runResult = IF pending = "exception" THEN "raised" ELSE "returned"

\* a KeyboardInterrupt during the second workload: torn down once, run returned
C16_Witness ==
    /\ epc = "done"
    /\ workload = 2
    /\ pending = "interrupt"
    /\ teardowns = <<"ok">>
    /\ runResult = "returned"

\* the step calls cluster.delete_namespace
DeleteCalled == Len(nsCalls') > Len(nsCalls) /\ nsCalls'[Len(nsCalls')][1] = "delete_namespace"

\* C17: within run_workload, when apply and then wait run the namespace of
\* the workload has been created and the collector has been entered and not
\* yet stopped: with metrics registered it is started, its poll thread exists
\* and the stop event is not set; the collector's __exit__ begins only after
\* wait (or after apply raised); and when delete_namespace is called the
\* collector has been stopped -- poll and sampling threads over, the rows
\* dumped and cleared -- while the namespace still exists.
C17_RunWorkloadOrder ==
    /\ []((epc \in {"with", "wait"} /\ pc = "body") =>
            /\ namespace
            /\ nsCalls[Len(nsCalls)] = <<"create_namespace", workload>>
            /\ NMetrics > 0 => (started /\ thread # 0 /\ ~stop_event)
            /\ hist.stops = 0 /\ hist.dumps = 0 /\ hist.clears = 0)
    /\ [][(pc = "idle" /\ pc' = "body") =>
            (namespace /\ nsCalls[Len(nsCalls)] = <<"create_namespace", workload>>)]_vars
    /\ [][(pc = "exit" /\ pc' # "exit") => epc = "exit"]_vars
    /\ [][DeleteCalled =>
            /\ epc = "exit"
            /\ namespace
            /\ ~started
            /\ pollpc \in {"none", "dead"}
            /\ Running = {}
            /\ \A m \in 1..NMetrics : samples[m] = <<>>
            /\ NMetrics > 0 => (hist.stops = 1 /\ hist.dumps = 1 /\ hist.clears = 1)]_vars

\* the second workload has run through with a metric sampled, and its
\* namespace has just been deleted
C17_Witness ==
    /\ workload = 2
    /\ epc = "teardown"
    /\ pending = "none"
    /\ NMetrics > 0
    /\ hist.completed[1] > 0
    /\ hist.clears = 1
    /\ nsCalls[Len(nsCalls)] = <<"delete_namespace", 2>>

\* C18: the namespace calls are create for workload 1, delete for workload 1,
\* create for workload 2, ... in registration order, a namespace existing
\* only between its create and its delete; when start() has returned
\* normally there were exactly N creates and N deletes and no namespace is
\* left.
C18_NamespacePerWorkloadInOrder ==
    /\ \A i \in 1..Len(nsCalls) :
          nsCalls[i] = IF i % 2 = 1 THEN <<"create_namespace", (i + 1) \div 2>>
                       ELSE <<"delete_namespace", i \div 2>>
    /\ (epc \in {"teardown", "kubeexit", "done"} /\ pending = "none") =>
          (Len(nsCalls) = 2 * workloads /\ ~namespace)
    /\ (epc = "create" /\ pending = "none") => ~namespace

\* start() has returned after two workloads
C18_Witness ==
    /\ epc = "teardown"
    /\ pending = "none"
    /\ workloads = 2
    /\ Len(nsCalls) = 4

\* C29: on every path out of run_workload after its namespace was created,
\* also when apply, wait or the collector's scope exit raised, delete_namespace
\* is called for the namespace of that workload before run_workload is left.
C29_NamespaceReleasedOnEveryPath ==
    [][(WithLeft /\ ~WithLeft') =>
          nsCalls' = Append(nsCalls,
                            <<"delete_namespace", WorkloadAt(workload, workloads)>>)]_vars

\* C30: a config file that existed before run entered the safe_kubeconfig scope
\* holds its original content again once the scope has been left, by a normal
\* exit, by an exception of the body, or by a failure to fetch or write the
\* cluster's config during the entry.
C30_ConfigRestoredOnEveryPath ==
    (epc \in {"done", "aborted"} /\ backup = "user") => config = "user"

\* ------------------------------------------------------------------ claims on JujuClusterSetup
FormClusterReturned == spc = "returned"

\* C21: with n >= 1 deployed units and a control-plane count c, 1 <= c <= n, the
\* ClusterInfo form_cluster returns has master = units[0], control_plane =
\* units[0..c-1] (so the master is in it and it has c members) and workers =
\* units[c..n-1]; the two lists are disjoint and together the deployed units.
C21_FormClusterSplitsUnits ==
    LET n == Len(self_units)
        c == control_plane
    IN  (FormClusterReturned /\ n >= 1 /\ 1 <= c /\ c <= n) =>
            /\ cluster.master = <<self_units[1]>>
            /\ cluster.control_plane = SubSeq(self_units, 1, c)
            /\ Len(cluster.control_plane) = c
            /\ \E i \in 1..c : cluster.control_plane[i] = cluster.master[1]
            /\ cluster.workers = SubSeq(self_units, c + 1, n)
            /\ NodeNames(cluster.control_plane) \cap NodeNames(cluster.workers) = {}
            /\ NodeNames(cluster.control_plane) \cup NodeNames(cluster.workers)
                   = NodeNames(self_units)

\* three units, two of them asked for the control plane, one worker
C21_Witness ==
    /\ FormClusterReturned
    /\ Len(self_units) = 3
    /\ control_plane = 2
    /\ Len(cluster.workers) = 1
    /\ Len(joins) = 2

\* C22: wait_for_nodes_to_join ends, and not by raising on the timeout: a
\* readiness check that reports all nodes joined makes it return at once; a
\* check that reports missing nodes makes it return, after one warning, the
\* first time more than max_wait has elapsed at a check, and sleep otherwise;
\* form_cluster then returns the description of all units although some have
\* not joined.
C22_WaitGivesUpWithoutRaising ==
    /\ [](spc = "sleep" => clock <= max_wait)
    /\ [][(spc = "wait" /\ spc' # "wait") =>
            CASE joined' = "all" -> spc' = "returned" /\ warnings' = warnings
              [] joined' = "some" /\ clock' > max_wait ->
                    /\ spc' = "returned"
                    /\ Len(warnings') = Len(warnings) + 1
              [] joined' = "some" /\ clock' <= max_wait ->
                    /\ spc' = "sleep"
                    /\ warnings' = warnings
              [] OTHER -> spc' = "raised"]_vars
    /\ []((FormClusterReturned /\ joined = "some") =>
            /\ NodeNames(nodes(cluster)) = NodeNames(self_units)
            /\ ~all_nodes_joined(cluster, ready)
            /\ Len(warnings) = 1)
    /\ (spc = "wait") ~> (spc \in {"returned", "raised"})

\* the wait gave up while one node had joined and another had not
C22_Witness ==
    /\ FormClusterReturned
    /\ joined = "some"
    /\ warnings # <<>>
    /\ ready # {}
    /\ clock > form_cluster_max_wait

\* ------------------------------------------------------------------ claims on APIServerLatency
NonDecreasing(buckets) ==
    /\ buckets # <<>> => buckets[1][2] >= 0
    /\ \A i \in 2..Len(buckets) : buckets[i - 1][2] <= buckets[i][2]

\* the cumulative counts a call worked on
CumulativeOf(call) == Subtract(call.polled, call.checkpoint).buckets

\* the derived counts are non-negative and sum to the last cumulative count
C24_DerivativePart ==
    (lat.kind \notin {"none", "KeyError"} /\ NonDecreasing(CumulativeOf(lat))) =>
        /\ \A i \in 1..Len(lat.latencies) : lat.latencies[i][2] >= 0
        /\ lat.polled # <<>> =>
              SumValues(lat.latencies) = CumulativeOf(lat)[Len(lat.polled)][2]

\* C24: the per-bucket counts are the first difference of the aggregated
\* cumulative counts: for non-decreasing cumulative counts every derived count
\* is non-negative and they sum to the last cumulative count; when every
\* bucket holds the same count N, all N samples sit at the first bound and
\* every requested percentile equals that bound.
C24_SaturatedBucketsGiveFirstBound ==
    /\ C24_DerivativePart
    /\ \A N \in 1..(MaxRequests + 1) :
        (/\ lat.kind # "none"
         /\ lat.arg = "list"
         /\ lat.checkpoint = <<>>
         /\ lat.polled = [i \in 1..Len(Les) |-> <<Les[i], N>>]) =>
            /\ lat.samples = [i \in 1..N |-> Les[1]]
            /\ lat.kind = "returned"
            /\ \A p \in 1..Len(lat.value) : lat.value[p][2] = Num(Les[1])

\* current cumulative - checkpoint cumulative, bucket by bucket
Delta(polled, checkpoint) ==
    [i \in 1..Len(polled) |->
        <<polled[i][1],
          polled[i][2] - (IF polled[i][1] \in Keys(checkpoint)
                          THEN Get(checkpoint, polled[i][1]) ELSE 0)>>]

\* C25: a sampling call after checkpoint() derives each bucket's count as the
\* first difference of (current cumulative - checkpoint cumulative), for every
\* bucket set seen at the checkpoint and at the call; without a checkpoint it
\* uses the all-time counts.
C25_CheckpointDelta ==
    lat.kind # "none" =>
        /\ lat.kind # "KeyError"
        /\ lat.latencies = derivative(Delta(lat.polled, lat.checkpoint))
        /\ lat.checkpoint = <<>> => lat.latencies = derivative(lat.polled)

\* C27: when parsing yields no buckets, or the derived counts are all zero,
\* get_latency_percentiles ends with an outcome of its own and does not fail
\* inside the quantile computation.
C27_EmptySampleGuarded ==
    (/\ lat.kind \notin {"none", "KeyError"}
     /\ \/ lat.polled = <<>>
        \/ \A i \in 1..Len(lat.latencies) : lat.latencies[i][2] = 0) =>
        lat.kind # "StatisticsError"

\* ------------------------------------------------------------------ claims on fetch_kubeconfig
\* C23: on entering a fetch_kubeconfig scope the cluster's kube config has
\* been written to the config file and KUBECONFIG is that file's path; once the
\* scope is left KUBECONFIG is unset and, with cleanup enabled, the config file
\* does not exist; the exit raises nothing of its own, whether or not the file
\* was still there.
C23_KubeconfigScoped ==
    /\ [][(kpc # "body" /\ kpc' = "body") =>
            (config_file' = "cluster" /\ KUBECONFIG' = config_path(config_arg))]_vars
    /\ [](kpc = "left" => (KUBECONFIG = Unset /\ (cleanup => config_file = "absent")))
    /\ [][(kpc = "exit" /\ kpc' = "left") => body_exc' = body_exc]_vars

\* a second scope left with cleanup, KUBECONFIG unset and the file gone
C23_Witness ==
    /\ kpc = "left"
    /\ cleanup
    /\ entries = 2
    /\ ~body_exc
    /\ KUBECONFIG = Unset
    /\ config_file = "absent"
====
